---- MODULE Spec2Model ----
(***************************************************************************)
(* Model of the fail-safe email worker: one run of the email() handler     *)
(* (routing, raw read, agent analysis, customer reply, message.forward,    *)
(* R2 backup, Discord alert) with every external call free to fail.        *)
(*                                                                         *)
(* Strings the code inspects character by character (recipient, routing    *)
(* keys, subject, sender, raw content) are sequences of one-character      *)
(* strings; strings the code only passes around (target addresses,         *)
(* message ids) are TLA+ strings.                                          *)
(***************************************************************************)
EXTENDS Integers, Sequences, FiniteSets, TLC

VARIABLES
    message,       \* the inbound message: from, to, subject, messageId, raw
    env,           \* bindings: EMAIL_ROUTING, RETAIL_EMAIL_AGENT, MAILGUN_DOMAIN, MAILGUN_API_KEY, DISCORD_WEBHOOK_URL, EMAIL_STORAGE
    rawState,      \* message.raw is a single-consumption stream: "fresh" or "used"
    pc,            \* position of the run inside email()
    targetEmail,   \* let targetEmail
    emailContent,  \* let emailContent (of the try block, then of the catch block)
    emailSubject,  \* let emailSubject
    analysis,      \* const analysis
    caught,        \* the error object handed to sendDiscordAlert
    site,          \* which message.forward call of email() the run is at / came from
    rawReads,      \* attempts to read message.raw, in order
    oracleCalls,   \* agent.fetch calls, in order
    sends,         \* sendReplyToCustomer calls, in order
    forwards,      \* message.forward calls, in order
    backups,       \* saveEmailToR2 calls, in order
    alerts,        \* sendDiscordAlert calls, in order
    trace,         \* every external effect of the run, in order
    now,           \* the clock, in milliseconds (what new Date() reads)
    emailBody,     \* let emailBody: what extractPlainTextBody returned
    agent          \* the RetailEmailAgent while it handles one analyze request

vars == <<message, env, rawState, pc, targetEmail, emailContent, emailSubject,
          analysis, caught, site, rawReads, oracleCalls, sends, forwards,
          backups, alerts, trace, now, emailBody, agent>>

(***************************************************************************)
(* JavaScript values                                                       *)
(***************************************************************************)
\* null / undefined of a character string
Null == <<"null">>
\* undefined of an address or id string
Undefined == "undefined"

\* JS truthiness of a character string: null, undefined and "" are falsy
Truthy(s) == s # Null /\ s # <<>>

\* String.prototype.toLowerCase, one character
LowerChar(c) ==
    CASE c = "A" -> "a" [] c = "B" -> "b" [] c = "C" -> "c" [] c = "D" -> "d"
      [] c = "E" -> "e" [] c = "F" -> "f" [] c = "G" -> "g" [] c = "H" -> "h"
      [] c = "I" -> "i" [] c = "J" -> "j" [] c = "K" -> "k" [] c = "L" -> "l"
      [] c = "M" -> "m" [] c = "N" -> "n" [] c = "O" -> "o" [] c = "P" -> "p"
      [] c = "Q" -> "q" [] c = "R" -> "r" [] c = "S" -> "s" [] c = "T" -> "t"
      [] c = "U" -> "u" [] c = "V" -> "v" [] c = "W" -> "w" [] c = "X" -> "x"
      [] c = "Y" -> "y" [] c = "Z" -> "z"
      [] OTHER -> c

\* String.prototype.toLowerCase
ToLowerCase(s) == [i \in 1..Len(s) |-> LowerChar(s[i])]

\* String.prototype.startsWith
StartsWith(s, p) == Len(s) >= Len(p) /\ SubSeq(s, 1, Len(p)) = p

\* the length of the line break /\r?\n/ matches at position i, 0 if none
LineBreakAt(s, i) ==
    IF i > Len(s) THEN 0
    ELSE IF s[i] = "\n" THEN 1
    ELSE IF s[i] = "\r" /\ i < Len(s) /\ s[i + 1] = "\n" THEN 2
    ELSE 0

\* the first position after the line breaks that start at position i
RECURSIVE AfterLineBreaks(_, _)
AfterLineBreaks(s, i) ==
    IF LineBreakAt(s, i) = 0 THEN i ELSE AfterLineBreaks(s, i + LineBreakAt(s, i))

\* the white space String.prototype.trim removes, as far as mail text has it
WhiteSpace == {" ", "\t", "\n", "\r"}

\* s.trim()
Trim(s) ==
    IF \A i \in 1..Len(s) : s[i] \in WhiteSpace THEN <<>>
    ELSE LET first == CHOOSE i \in 1..Len(s) :
                          s[i] \notin WhiteSpace /\ \A j \in 1..(i - 1) : s[j] \in WhiteSpace
             last == CHOOSE i \in 1..Len(s) :
                          s[i] \notin WhiteSpace /\ \A j \in (i + 1)..Len(s) : s[j] \in WhiteSpace
         IN  SubSeq(s, first, last)

\* positions of "@" in s
AtPositions(s) == {i \in 1..Len(s) : s[i] = "@"}

Min(S) == CHOOSE x \in S : \A y \in S : x <= y

\* recipient.split('@')[1]: the text between the first "@" and the next one
\* (or the end); undefined when there is no "@"
SplitDomain(s) ==
    IF AtPositions(s) = {} THEN Null
    ELSE LET first == Min(AtPositions(s))
             later == {i \in AtPositions(s) : i > first}
             stop  == IF later = {} THEN Len(s) + 1 ELSE Min(later)
         IN  SubSeq(s, first + 1, stop - 1)

(***************************************************************************)
(* Router: part_005 lines 19-45                                            *)
(***************************************************************************)
DefaultKey == <<"@", "d", "e", "f", "a", "u", "l", "t">>

\* emailRouting[key]
Lookup(table, key) == IF key \in DOMAIN table THEN table[key] ELSE Undefined

\* mutant of Recipient: the lookup uses message.to as given
Recipient_AsGiven(to) == to

\* const recipient = message.to.toLowerCase()
Recipient(to) == ToLowerCase(to)

\* the catch-all step: if (!targetEmail) { domain = ...; if (domain) targetEmail = emailRouting[`@${domain}`] }
CatchAll(table, recipient, found) ==
    IF found # Undefined THEN found
    ELSE IF Truthy(SplitDomain(recipient))
         THEN Lookup(table, <<"@">> \o SplitDomain(recipient))
         ELSE found

\* the global default step: if (!targetEmail) targetEmail = emailRouting['@default']
GlobalDefault(table, found) ==
    IF found # Undefined THEN found ELSE Lookup(table, DefaultKey)

ResolveTarget(to, table) ==
    GlobalDefault(table, CatchAll(table, Recipient(to), Lookup(table, Recipient(to))))

(***************************************************************************)
(* Inputs: the messages and deployments a run is checked for               *)
(***************************************************************************)
\* message.to: exact hit, the same in capitals, catch-all hit, other domain,
\* no "@", empty domain, two "@"
Recipients == { <<"s", "@", "a">>, <<"S", "@", "A">>, <<"x", "@", "a">>,
                <<"s", "@", "b">>, <<"s", "a">>, <<"s", "@">>,
                <<"x", "@", "a", "@", "b">> }

\* message.from
Senders == { <<"c", "@", "x">>, <<"d", "@", "x">> }

\* message.headers.get("subject"): no header, a plain subject, a reply subject
Subjects == { Null, <<"H", "i">>, <<"R", "E", ":", " ", "H", "i">> }

\* message.headers.get("Message-ID")
MessageIds == { Undefined, "<abc@domain>" }

\* the text of message.raw (never empty: a message has headers): headers, a
\* blank line and a body; or header lines only
RawContents == { <<"S", ":", "H", "i", "\n", "\n", "H", "e", "y">>,
                 <<"S", ":", "H", "i", "\n">> }

\* the keys an EMAIL_ROUTING table may hold, and the target each maps to
ExactKey == <<"s", "@", "a">>
DomainKey == <<"@", "a">>
RoutingKeys == { ExactKey, DomainKey, DefaultKey }

TargetOf(key) ==
    CASE key = ExactKey -> "sales@corp"
      [] key = DomainKey -> "ops@corp"
      [] OTHER -> "fallback@corp"

Targets == { TargetOf(k) : k \in RoutingKeys }

RoutingTables == { [k \in keys |-> TargetOf(k)] : keys \in SUBSET RoutingKeys }

\* what agent.fetch(...) followed by analysisResponse.json() can produce
CanReplyValues == { "true", "false", "absent" }
ReplyContents == { Null, <<>>, <<"O", "K">> }
Analyses == [canReply : CanReplyValues, replyContent : ReplyContents]
NoAnalysis == [canReply |-> "absent", replyContent |-> Null]

(***************************************************************************)
(* sendReplyToCustomer: part_005 lines 349-402                             *)
(***************************************************************************)
NoSubject == <<"N", "o", " ", "S", "u", "b", "j", "e", "c", "t">>
\* mutant of RePrefix: the prefix has no colon
RePrefix_NoColon == <<"R", "e", " ">>
\* the "Re: " of line 355
RePrefix == <<"R", "e", ":", " ">>

\* message.headers.get("subject") || "No Subject"
SubjectOrDefault(header) == IF Truthy(header) THEN header ELSE NoSubject

\* mutant of ReplySubject: the prefix test is case-sensitive
ReplySubject_CaseSensitive(originalSubject) ==
    IF StartsWith(originalSubject, <<"R", "e", ":">>)
    THEN originalSubject
    ELSE RePrefix \o originalSubject

\* originalSubject.toLowerCase().startsWith("re:") ? originalSubject : `Re: ${originalSubject}`
ReplySubject(originalSubject) ==
    IF StartsWith(ToLowerCase(originalSubject), <<"r", "e", ":">>)
    THEN originalSubject
    ELSE RePrefix \o originalSubject

\* mutant of ThreadingHeaders: References is not set
ThreadingHeaders_OnlyInReplyTo(originalMessageId) ==
    IF originalMessageId # Undefined
    THEN [inReplyTo |-> originalMessageId, references |-> Undefined]
    ELSE [inReplyTo |-> Undefined, references |-> Undefined]

\* const headers = {}; if (originalMessageId) { In-Reply-To, References }
ThreadingHeaders(originalMessageId) ==
    IF originalMessageId # Undefined
    THEN [inReplyTo |-> originalMessageId, references |-> originalMessageId]
    ELSE [inReplyTo |-> Undefined, references |-> Undefined]

\* sendWithMailgun (calendar-tools.js 252-257): every entry of headers becomes
\* a form field named "h:" + the header name
HeaderParams(headers) ==
    { p \in { <<"h:In-Reply-To", headers.inReplyTo>>,
              <<"h:References", headers.references>> } : p[2] # Undefined }

\* sendWithMailgun (calendar-tools.js 226-231): if (!domain || !apiKey) throw
MailgunConfigured(e) == e.MAILGUN_DOMAIN /\ e.MAILGUN_API_KEY

\* sendWithMailgun (calendar-tools.js 216-279): throws before any request when
\* the domain or key is missing; throws on a failed fetch and on a non-2xx
\* answer; after a 2xx answer returns response.json(), which rejects when the
\* body is not JSON
MailgunOutcomes(configured) ==
    IF configured
    THEN {"fetchThrows", "non2xx", "acceptedBadJson", "ok"}
    ELSE {"notConfigured"}

MailgunRequested(outcome) == outcome # "notConfigured"
MailgunAccepted(outcome) == outcome \in {"acceptedBadJson", "ok"}
MailgunReturned(outcome) == outcome = "ok"

\* what the provider answers: a status and a body text; no answer when no
\* request was made or the fetch itself threw
ResponseStatuses == {200, 302, 500}
ResponseTexts == {"{}", "Forbidden"}
NoResponse == [status |-> 0, text |-> ""]

\* response.ok: a status in 200..299 (line 273)
ResponseOk(status) == status \in 200..299

\* response.json() resolves only on a body that is JSON (line 278)
IsJson(text) == text = "{}"

\* how a call that got an answer ends (lines 273-278)
MailgunOutcome(response) ==
    IF ~ResponseOk(response.status) THEN "non2xx"
    ELSE IF IsJson(response.text) THEN "ok"
    ELSE "acceptedBadJson"

\* the answers under which a call ends with the given outcome
MailgunResponses(outcome) ==
    IF outcome \in {"notConfigured", "fetchThrows"}
    THEN {NoResponse}
    ELSE {r \in [status : ResponseStatuses, text : ResponseTexts] :
            MailgunOutcome(r) = outcome}

NoError == [message |-> "none", status |-> 0, text |-> ""]

\* mutant of MailgunError: the non-2xx error names the status only
MailgunError_DropsBody(outcome, response) ==
    CASE outcome = "notConfigured" ->
           [message |-> "MAILGUN_DOMAIN and MAILGUN_API_KEY must be configured",
            status |-> 0, text |-> ""]
      [] outcome = "fetchThrows" ->
           [message |-> "fetch failed", status |-> 0, text |-> ""]
      [] outcome = "non2xx" ->
           [message |-> "Mailgun failed", status |-> response.status,
            text |-> ""]
      [] outcome = "acceptedBadJson" ->
           [message |-> "Unexpected token", status |-> 0, text |-> ""]
      [] OTHER -> NoError

\* the error sendWithMailgun throws: the configuration error of line 230,
\* the fetch's own rejection, `Mailgun failed: ${response.status}
\* ${errorText}` with errorText = await response.text() (lines 273-276), or
\* the rejection of response.json() (line 278)
MailgunError(outcome, response) ==
    CASE outcome = "notConfigured" ->
           [message |-> "MAILGUN_DOMAIN and MAILGUN_API_KEY must be configured",
            status |-> 0, text |-> ""]
      [] outcome = "fetchThrows" ->
           [message |-> "fetch failed", status |-> 0, text |-> ""]
      [] outcome = "non2xx" ->
           [message |-> "Mailgun failed", status |-> response.status,
            text |-> response.text]
      [] outcome = "acceptedBadJson" ->
           [message |-> "Unexpected token", status |-> 0, text |-> ""]
      [] OTHER -> NoError

\* mutant of ReplySend: the reply goes to the customer alone
ReplySend_NoCc(msg, originalSubject, ccEmail, outcome, response) ==
    [to        |-> msg.from,
     cc        |-> Undefined,
     subject   |-> ReplySubject(originalSubject),
     headers   |-> ThreadingHeaders(msg.messageId),
     headerParams |-> HeaderParams(ThreadingHeaders(msg.messageId)),
     outcome   |-> outcome,
     response  |-> response,
     error     |-> MailgunError(outcome, response)]

\* the request sendReplyToCustomer hands to sendWithMailgun, and how it ended
ReplySend(msg, originalSubject, ccEmail, outcome, response) ==
    [to        |-> msg.from,
     cc        |-> ccEmail,
     subject   |-> ReplySubject(originalSubject),
     headers   |-> ThreadingHeaders(msg.messageId),
     headerParams |-> HeaderParams(ThreadingHeaders(msg.messageId)),
     outcome   |-> outcome,
     response  |-> response,
     error     |-> MailgunError(outcome, response)]

(***************************************************************************)
(* email(): part_005 lines 17-208 (part_004 lines 294-486 is the same      *)
(* handler)                                                                *)
(***************************************************************************)
\* no verdict yet, and the agent outside an analyze request
NoVerdict == [canReply |-> "absent", replyContent |-> Null, reason |-> Undefined]
NoOutput == [canReply |-> "absent", reply |-> Null, reason |-> Undefined]
\* servers: the MCP servers registered with the agent (getMcpServers());
\* removalErrors: whether a removeMcpServer of the last cleanup threw; calls:
\* the connectToMcpServer calls made so far
AgentIdle ==
    [step |-> "idle", mcp |-> "none", calendarTools |-> FALSE, generated |-> "none",
     output |-> NoOutput, result |-> NoVerdict,
     servers |-> {}, removalErrors |-> FALSE, calls |-> 0]

\* the bindings of a deployment; the mailer's domain and key are set or left
\* out together here, MailerSpec takes them apart
Deployments ==
    {e \in [EMAIL_ROUTING : RoutingTables, RETAIL_EMAIL_AGENT : BOOLEAN,
             MAILGUN_DOMAIN : BOOLEAN, MAILGUN_API_KEY : BOOLEAN,
             DISCORD_WEBHOOK_URL : BOOLEAN] :
        e.MAILGUN_DOMAIN = e.MAILGUN_API_KEY}

Init ==
    /\ message \in [from : Senders, to : Recipients, subject : Subjects,
                    messageId : MessageIds, raw : RawContents]
    /\ env \in Deployments
    /\ rawState = "fresh"
    /\ pc = "start"
    /\ targetEmail = Undefined
    /\ emailContent = Null
    /\ emailSubject = Null
    /\ analysis = NoAnalysis
    /\ caught = "none"
    /\ site = "none"
    /\ rawReads = <<>>
    /\ oracleCalls = <<>>
    /\ sends = <<>>
    /\ forwards = <<>>
    /\ backups = <<>>
    /\ alerts = <<>>
    /\ trace = <<>>
    /\ now = 0
    /\ emailBody = Null
    /\ agent = AgentIdle

\* mutant of AfterRouting: the return after the routing-miss alert is missing
AfterRouting_MissContinues(target) == "read"

\* where the run goes once targetEmail is known (lines 48-60)
AfterRouting(target) == IF target = Undefined THEN "alert" ELSE "read"

\* lines 19-60: resolve the target; without one, alert and return
Route ==
    /\ pc = "start"
    /\ targetEmail' = ResolveTarget(message.to, env.EMAIL_ROUTING)
    /\ pc' = AfterRouting(targetEmail')
    /\ caught' = IF targetEmail' = Undefined THEN "noRoutingRule" ELSE caught
    /\ site' = IF targetEmail' = Undefined THEN "miss" ELSE site
    /\ UNCHANGED <<emailBody, agent, message, env, now, rawState, emailContent, emailSubject, analysis,
                   rawReads, oracleCalls, sends, forwards, backups, alerts, trace>>

(***************************************************************************)
(* Body extractor: extractPlainTextBody, part_005 lines 218-296.  Regular  *)
(* expressions are modelled by what they match on a character sequence.    *)
(***************************************************************************)
\* pattern p occurs in s at position i
MatchesAt(s, p, i) ==
    /\ i >= 1
    /\ i + Len(p) - 1 <= Len(s)
    /\ \A k \in 1..Len(p) : s[i + k - 1] = p[k]

\* the first position from i on whose character is not in chars (Len + 1 if none)
RECURSIVE SkipWhile(_, _, _)
SkipWhile(s, i, chars) ==
    IF i > Len(s) \/ s[i] \notin chars THEN i ELSE SkipWhile(s, i + 1, chars)

\* the first position from i on whose character is in chars (Len + 1 if none)
RECURSIVE SkipUntil(_, _, _)
SkipUntil(s, i, chars) ==
    IF i > Len(s) \/ s[i] \in chars THEN i ELSE SkipUntil(s, i + 1, chars)

\* where /(?:\r?\n){2,}/ first matches: the leftmost position with two line
\* breaks in a row, 0 if there is none
FirstBlankLine(s) ==
    LET starts(i) == /\ LineBreakAt(s, i) > 0
                     /\ LineBreakAt(s, i + LineBreakAt(s, i)) > 0
    IN  IF \E i \in 1..Len(s) : starts(i)
        THEN CHOOSE i \in 1..Len(s) : starts(i) /\ \A j \in 1..(i - 1) : ~starts(j)
        ELSE 0

ContentTypeName == <<"c", "o", "n", "t", "e", "n", "t", "-", "t", "y", "p", "e", ":">>
MultipartSlash == <<"m", "u", "l", "t", "i", "p", "a", "r", "t", "/">>
BoundaryEquals == <<"b", "o", "u", "n", "d", "a", "r", "y", "=">>
TextPlain == <<"t", "e", "x", "t", "/", "p", "l", "a", "i", "n">>
TextHtml == <<"t", "e", "x", "t", "/", "h", "t", "m", "l">>
TextAny == <<"t", "e", "x", "t", "/">>
DashDash == <<"-", "-">>

\* the group of /Content-Type:\s*multipart\/[^;]+;\s*boundary="?([^"\r\n\s]+)"?/i
\* (line 229) when the pattern matches at position i of headers, else Null
BoundaryAt(headers, i) ==
    LET h == ToLowerCase(headers)
        type == SkipWhile(h, i + Len(ContentTypeName), WhiteSpace)
        subtype == type + Len(MultipartSlash)
        semicolon == SkipUntil(h, subtype, {";"})
        param == SkipWhile(h, semicolon + 1, WhiteSpace)
        quote == param + Len(BoundaryEquals)
        value == IF quote <= Len(h) /\ h[quote] = "\"" THEN quote + 1 ELSE quote
        stop == SkipUntil(headers, value, {"\"", "\r", "\n", " ", "\t"})
    IN  IF /\ MatchesAt(h, ContentTypeName, i)
           /\ MatchesAt(h, MultipartSlash, type)
           /\ semicolon > subtype
           /\ semicolon <= Len(h)
           /\ MatchesAt(h, BoundaryEquals, param)
           /\ stop > value
        THEN SubSeq(headers, value, stop - 1)
        ELSE Null

\* contentTypeMatch[1] (lines 229-232): the boundary the headers declare, Null
\* when they declare none
MultipartBoundary(headers) ==
    IF \E i \in 1..Len(headers) : BoundaryAt(headers, i) # Null
    THEN LET first == CHOOSE i \in 1..Len(headers) :
                          /\ BoundaryAt(headers, i) # Null
                          /\ \A j \in 1..(i - 1) : BoundaryAt(headers, j) = Null
         IN  BoundaryAt(headers, first)
    ELSE Null

\* body.split(/--boundary(?:--)?/g) (lines 234-238), from position i with the
\* current part starting at position start
RECURSIVE SplitFrom(_, _, _, _)
SplitFrom(body, marker, i, start) ==
    IF i > Len(body) THEN << SubSeq(body, start, Len(body)) >>
    ELSE IF MatchesAt(body, marker, i)
         THEN LET after == i + Len(marker)
                  next == IF MatchesAt(body, DashDash, after) THEN after + 2 ELSE after
              IN  << SubSeq(body, start, i - 1) >> \o SplitFrom(body, marker, next, next)
         ELSE SplitFrom(body, marker, i + 1, start)

SplitOnBoundary(body, boundary) == SplitFrom(body, DashDash \o boundary, 1, 1)

\* part.match(/Content-Type:\s*<type>/i) (lines 246, 263, 281)
HasContentType(part, type) ==
    LET p == ToLowerCase(part)
    IN  \E i \in 1..Len(p) :
            /\ MatchesAt(p, ContentTypeName, i)
            /\ MatchesAt(p, type, SkipWhile(p, i + Len(ContentTypeName), WhiteSpace))

\* partBodyMatch[1] (lines 248-249): the text after the part's first blank
\* line, up to the first line break followed by "--" or to the end of the
\* part; Null when the part has no blank line
PartBody(part) ==
    IF FirstBlankLine(part) = 0 THEN Null
    ELSE LET from == AfterLineBreaks(part, FirstBlankLine(part))
             stops == {k \in from..Len(part) :
                          \/ MatchesAt(part, <<"\n", "-", "-">>, k)
                          \/ MatchesAt(part, <<"\r", "\n", "-", "-">>, k)}
             stop == IF stops = {} THEN Len(part) + 1 ELSE Min(stops)
         IN  SubSeq(part, from, stop - 1)

\* text.replace(/--\s*$/, '') on a trimmed text: a final "--" is removed
DropFinalDashes(text) ==
    IF Len(text) >= 2 /\ SubSeq(text, Len(text) - 1, Len(text)) = DashDash
    THEN SubSeq(text, 1, Len(text) - 2)
    ELSE text

\* partBodyMatch[1].trim().replace(/--\s*$/, '').trim() (lines 251-253)
CleanedText(part) == Trim(DropFinalDashes(Trim(PartBody(part))))

\* text.replace(/<[^>]+>/g, ''), from position i
RECURSIVE StripTagsFrom(_, _)
StripTagsFrom(text, i) ==
    IF i > Len(text) THEN <<>>
    ELSE LET close == SkipUntil(text, i + 1, {">"})
         IN  IF text[i] = "<" /\ close <= Len(text) /\ close > i + 1
             THEN StripTagsFrom(text, close + 1)
             ELSE << text[i] >> \o StripTagsFrom(text, i + 1)

\* text.replace(pattern, replacement) with a global literal pattern
RECURSIVE ReplaceAllFrom(_, _, _, _)
ReplaceAllFrom(text, pattern, replacement, i) ==
    IF i > Len(text) THEN <<>>
    ELSE IF MatchesAt(text, pattern, i)
         THEN replacement \o ReplaceAllFrom(text, pattern, replacement, i + Len(pattern))
         ELSE << text[i] >> \o ReplaceAllFrom(text, pattern, replacement, i + 1)

ReplaceAll(text, pattern, replacement) == ReplaceAllFrom(text, pattern, replacement, 1)

\* line 271: tags removed, then &nbsp; &amp; &lt; &gt; &quot; replaced in
\* this order
HtmlToText(text) ==
    LET noTags == StripTagsFrom(text, 1)
        nbsp == ReplaceAll(noTags, <<"&", "n", "b", "s", "p", ";">>, <<" ">>)
        amp == ReplaceAll(nbsp, <<"&", "a", "m", "p", ";">>, <<"&">>)
        lt == ReplaceAll(amp, <<"&", "l", "t", ";">>, <<"<">>)
        gt == ReplaceAll(lt, <<"&", "g", "t", ";">>, <<">">>)
    IN  ReplaceAll(gt, <<"&", "q", "u", "o", "t", ";">>, <<"\"">>)

\* what one pass over the parts returns for a part (lines 241-256, 260-274,
\* 278-290): <<>> when the part is skipped or yields nothing
PartYield(part, type) ==
    IF Trim(part) = <<>> \/ ~HasContentType(part, type) \/ PartBody(part) = Null
    THEN <<>>
    ELSE IF type = TextHtml THEN HtmlToText(CleanedText(part)) ELSE CleanedText(part)

\* the first part, in order, that yields text in a pass; <<>> when none does
FirstYield(parts, type) ==
    LET yielding == {k \in 1..Len(parts) : PartYield(parts[k], type) # <<>>}
    IN  IF yielding = {} THEN <<>> ELSE PartYield(parts[Min(yielding)], type)

\* the three passes in the order of lines 240, 259, 277
PassOrder == <<TextPlain, TextHtml, TextAny>>

\* mutant of SimpleBody: the body is returned untrimmed
SimpleBody_Untrimmed(body) == body

\* line 295
SimpleBody(body) == Trim(body)

\* extractPlainTextBody(emailContent)
ExtractPlainTextBody(content) ==
    IF FirstBlankLine(content) = 0 THEN Trim(content)
    ELSE LET split == FirstBlankLine(content)
             headers == SubSeq(content, 1, split - 1)
             body == SubSeq(content, AfterLineBreaks(content, split), Len(content))
             boundary == MultipartBoundary(headers)
         IN  IF boundary = Null THEN SimpleBody(body)
             ELSE LET parts == SplitOnBoundary(body, boundary)
                      passes == {k \in 1..Len(PassOrder) :
                                    FirstYield(parts, PassOrder[k]) # <<>>}
                  IN  IF passes = {} THEN SimpleBody(body)
                      ELSE FirstYield(parts, PassOrder[Min(passes)])

\* one attempt to read message.raw through new Response(stream).text(): a
\* used stream always throws; a fresh one yields the text or throws, and a
\* throw may or may not have disturbed the stream
RawReadResults(state) ==
    IF state = "used"
    THEN { [ok |-> FALSE, next |-> "used"] }
    ELSE { [ok |-> TRUE, next |-> "used"],
           [ok |-> FALSE, next |-> "used"],
           [ok |-> FALSE, next |-> "fresh"] }

\* mutant of AfterRead: without an agent namespace the handler just returns
AfterRead_ReturnsWithoutForward(agentNamespace) ==
    IF agentNamespace THEN "oracle" ELSE "done"

\* where the run goes after a successful read (lines 91-105)
AfterRead(agentNamespace) == IF agentNamespace THEN "oracle" ELSE "forward"

\* lines 61-105: subject, raw read and body extraction; a failed read goes to
\* the forward of line 76, a missing agent namespace to the forward of line 95
ReadRaw ==
    /\ pc = "read"
    /\ emailSubject' = SubjectOrDefault(message.subject)
    /\ \E r \in RawReadResults(rawState) :
         /\ rawState' = r.next
         /\ rawReads' = Append(rawReads, [by |-> "email", ok |-> r.ok])
         /\ IF r.ok
            THEN /\ emailContent' = message.raw
                 /\ emailBody' = ExtractPlainTextBody(message.raw)
                 /\ pc' = AfterRead(env.RETAIL_EMAIL_AGENT)
                 /\ site' = IF env.RETAIL_EMAIL_AGENT THEN site ELSE "noAgent"
            ELSE /\ emailContent' = Null
                 /\ emailBody' = Null
                 /\ pc' = "forward"
                 /\ site' = "readFailed"
    /\ trace' = Append(trace, "rawRead")
    /\ UNCHANGED <<agent, message, env, now, targetEmail, analysis, caught, oracleCalls,
                   sends, forwards, backups, alerts>>

\* mutant of ShouldReply: a missing canReply counts as true
ShouldReply_AbsentIsTrue(a) == a.canReply # "false" /\ Truthy(a.replyContent)

\* mutant of ShouldReply: the replyContent test is missing
ShouldReply_IgnoresContent(a) == a.canReply = "true"

\* line 130: analysis.canReply && analysis.replyContent
ShouldReply(a) == a.canReply = "true" /\ Truthy(a.replyContent)

EmailPrefix == <<"e", "m", "a", "i", "l", "-">>

\* mutant of AgentName: one instance name for every sender
AgentName_Shared(from) == EmailPrefix

\* `email-${message.from}` (line 109): the name idFromName turns into the
\* id of the agent instance; idFromName gives equal ids to equal names only
AgentName(from) == EmailPrefix \o from

\* one agent.fetch as recorded: the instance addressed, the customerEmail
\* and emailContent of the request body (lines 115-121), and how it ended
OracleCall(msg, body, result) ==
    [id |-> AgentName(msg.from), customerEmail |-> msg.from, body |-> body,
     result |-> result]

\* how the oracle invocation can fail in email(): agent.fetch throws,
\* analysisResponse.json() throws, or the JSON is null and reading
\* analysis.canReply throws
OracleFailures == {"fetchThrows", "jsonThrows", "jsonNull"}

\* lines 107-130: agent.fetch and analysisResponse.json(); either may throw,
\* the JSON may be null (analysis.canReply then throws), or it is an object
CallOracle ==
    /\ pc = "oracle"
    /\ trace' = Append(trace, "oracle")
    /\ \/ \E e \in OracleFailures :
            /\ oracleCalls' = Append(oracleCalls, OracleCall(message, emailBody, e))
            /\ caught' = e
            /\ pc' = "outer"
            /\ UNCHANGED <<emailBody, agent, analysis, site>>
       \/ \E a \in Analyses :
            /\ oracleCalls' = Append(oracleCalls, OracleCall(message, emailBody, "object"))
            /\ analysis' = a
            /\ pc' = IF ShouldReply(a) THEN "reply" ELSE "forward"
            /\ site' = IF ShouldReply(a) THEN site ELSE "noReply"
            /\ UNCHANGED caught
    /\ UNCHANGED <<emailBody, agent, message, env, now, rawState, targetEmail, emailContent, emailSubject,
                   rawReads, sends, forwards, backups, alerts>>

\* lines 112-126: agent.fetch is awaited with nothing racing it; when the
\* agent never answers, the run stays at the await
OracleNeverReturns ==
    /\ pc = "oracle"
    /\ pc' = "awaitingOracle"
    /\ oracleCalls' = Append(oracleCalls, OracleCall(message, emailBody, "pending"))
    /\ trace' = Append(trace, "oracle")
    /\ UNCHANGED <<emailBody, agent, message, env, now, rawState, targetEmail, emailContent,
                   emailSubject, analysis, caught, site, rawReads, sends, forwards,
                   backups, alerts>>

\* mutant of AfterReply: a failed reply goes straight to the backup
AfterReply_SkipsFallback(outcome) ==
    IF MailgunReturned(outcome) THEN "done" ELSE "backup"

\* mutant of AfterReply: a failed reply escapes to the outer catch
AfterReply_Escapes(outcome) == IF MailgunReturned(outcome) THEN "done" ELSE "outer"

\* mutant of AfterReply: the forward follows the reply whatever its outcome
AfterReply_ForwardsAnyway(outcome) == "forward"

\* where the run goes after sendReplyToCustomer (lines 143-148)
AfterReply(outcome) == IF MailgunReturned(outcome) THEN "done" ELSE "forward"

\* lines 134-145: sendReplyToCustomer; success ends the run, a throw goes to
\* the fallback forward of line 148
SendReply ==
    /\ pc = "reply"
    /\ \E o \in MailgunOutcomes(MailgunConfigured(env)) :
         \E r \in MailgunResponses(o) :
           /\ sends' = Append(sends, ReplySend(message, emailSubject, targetEmail, o, r))
           /\ pc' = AfterReply(o)
           /\ site' = IF MailgunReturned(o) THEN site ELSE "replyFailed"
    /\ trace' = Append(trace, "reply")
    /\ UNCHANGED <<emailBody, agent, message, env, now, rawState, targetEmail, emailContent, emailSubject,
                   analysis, caught, rawReads, oracleCalls, forwards, backups, alerts>>

\* mutant of AfterOuterRead: the outer catch goes straight to the backup
AfterOuterRead_SkipsForward == "backup"

\* where the outer catch goes after its read (line 196)
AfterOuterRead == "forward"

\* lines 179-192: the outer catch reads message.raw again into its own
\* emailContent, then goes to the forward of line 196
OuterCatch ==
    /\ pc = "outer"
    /\ \E r \in RawReadResults(rawState) :
         /\ rawState' = r.next
         /\ rawReads' = Append(rawReads, [by |-> "outerCatch", ok |-> r.ok])
         /\ emailContent' = IF r.ok THEN message.raw ELSE Null
    /\ pc' = AfterOuterRead
    /\ site' = "outer"
    /\ trace' = Append(trace, "rawRead")
    /\ UNCHANGED <<emailBody, agent, message, env, now, targetEmail, emailSubject, analysis, caught,
                   oracleCalls, sends, forwards, backups, alerts>>

\* the error handed to sendDiscordAlert after a failed forward: forwardError,
\* except in the outer catch, which hands on the error it caught (line 205)
AlertError(at, error) == IF at = "outer" THEN error ELSE "forwardError"

\* mutant of AfterForward: a failed forward only alerts
AfterForward_SkipsBackup(ok) == IF ok THEN "done" ELSE "alert"

\* mutant of AfterForward: the backup follows the forward whatever its outcome
AfterForward_AlwaysBacksUp(ok) == "backup"

\* mutant of AfterForward: a failed forward ends the handler
AfterForward_GivesUp(ok) == "done"

\* where the run goes after message.forward: every catch (forwardError) block
\* calls saveEmailToR2 first
AfterForward(ok) == IF ok THEN "done" ELSE "backup"

\* message.forward(targetEmail) at lines 76, 95, 148, 167 and 196: success
\* ends the run, a throw goes to saveEmailToR2
Forward ==
    /\ pc = "forward"
    /\ \E ok \in BOOLEAN :
         /\ forwards' = Append(forwards, [to |-> targetEmail, site |-> site, ok |-> ok])
         /\ pc' = AfterForward(ok)
         /\ caught' = IF ok THEN caught ELSE AlertError(site, caught)
    /\ trace' = Append(trace, "forward")
    /\ UNCHANGED <<emailBody, agent, message, env, now, rawState, targetEmail, emailContent, emailSubject,
                   analysis, site, rawReads, oracleCalls, sends, backups, alerts>>

\* mutant of ContentArg: the branch without an agent passes null as well
ContentArg_NullWithoutAgent(at, content) ==
    IF at \in {"readFailed", "miss", "noAgent"} THEN Null ELSE content

\* the emailContent argument of saveEmailToR2 and sendDiscordAlert: null at
\* lines 83-85 and 50-56, the emailContent in scope elsewhere
ContentArg(at, content) == IF at \in {"readFailed", "miss"} THEN Null ELSE content

\* mutant of BackupMetadata: from is taken from message.to
BackupMetadata_WrongSender(msg, target) ==
    [from |-> msg.to, to |-> msg.to, subject |-> SubjectOrDefault(msg.subject),
     originalRecipient |-> msg.to, targetEmail |-> target]

\* customMetadata of the R2 object (lines 428-435)
BackupMetadata(msg, target) ==
    [from |-> msg.from, to |-> msg.to, subject |-> SubjectOrDefault(msg.subject),
     originalRecipient |-> msg.to, targetEmail |-> target]

\* the From / Original Recipient / Target Email / Subject fields of the embed
\* (lines 485-505)
AlertFields(msg, target) ==
    [from |-> msg.from, originalRecipient |-> msg.to, targetEmail |-> target,
     subject |-> SubjectOrDefault(msg.subject)]

\* the characters /[^a-zA-Z0-9]/ does not match
AlphaNumeric ==
    { "a", "b", "c", "d", "e", "f", "g", "h", "i", "j", "k", "l", "m", "n", "o",
      "p", "q", "r", "s", "t", "u", "v", "w", "x", "y", "z",
      "A", "B", "C", "D", "E", "F", "G", "H", "I", "J", "K", "L", "M", "N", "O",
      "P", "Q", "R", "S", "T", "U", "V", "W", "X", "Y", "Z",
      "0", "1", "2", "3", "4", "5", "6", "7", "8", "9" }

\* message.from.replace(/[^a-zA-Z0-9]/g, "_")
Sanitize(from) ==
    [i \in 1..Len(from) |-> IF from[i] \in AlphaNumeric THEN from[i] ELSE "_"]

\* `email-backup-${timestamp}-${sanitized sender}.eml` (lines 409-410); the
\* ISO timestamp has millisecond resolution and is one-to-one with the clock
\* reading, so the key is given by the reading and the sanitized sender
BackupKey(timestamp, from) == [timestamp |-> timestamp, sender |-> Sanitize(from)]

\* mutant of AfterBackup: a failed backup ends the handler
AfterBackup_FailureReturns(outcome) == IF outcome = "stored" THEN "alert" ELSE "done"

\* where the run goes after saveEmailToR2: it catches everything (lines
\* 439-441), so the caller goes on to sendDiscordAlert
AfterBackup(outcome) == "alert"

\* one saveEmailToR2 call as recorded: key, metadata, body and how it ended
BackupRecord(msg, target, timestamp, body, outcome) ==
    [key |-> BackupKey(timestamp, msg.from),
     metadata |-> BackupMetadata(msg, target),
     body |-> body, outcome |-> outcome]

\* saveEmailToR2, lines 407-442: with content, encode it and put; without,
\* read message.raw again and put; every throw is caught and logged
SaveEmailToR2 ==
    /\ pc = "backup"
    /\ LET content == ContentArg(site, emailContent)
           rec(body, outcome) ==
               BackupRecord(message, targetEmail, now, body, outcome)
       IN  IF Truthy(content)
           THEN /\ \E o \in {"stored", "putFailed"} :
                     /\ backups' = Append(backups, rec(content, o))
                     /\ pc' = AfterBackup(o)
                /\ UNCHANGED <<emailBody, agent, rawState, rawReads>>
                /\ trace' = Append(trace, "backup")
           ELSE \E r \in RawReadResults(rawState) :
                  /\ rawState' = r.next
                  /\ rawReads' = Append(rawReads, [by |-> "saveEmailToR2", ok |-> r.ok])
                  /\ trace' = trace \o <<"backup", "rawRead">>
                  /\ IF r.ok
                     THEN \E o \in {"stored", "putFailed"} :
                            /\ backups' = Append(backups, rec(message.raw, o))
                            /\ pc' = AfterBackup(o)
                     ELSE /\ backups' = Append(backups, rec(Null, "readFailed"))
                          /\ pc' = AfterBackup("readFailed")
    /\ UNCHANGED <<emailBody, agent, message, env, now, targetEmail, emailContent, emailSubject, analysis,
                   caught, site, oracleCalls, sends, forwards, alerts>>

\* the Status field of the alert (lines 521-527)
AlertStatus(target) ==
    IF target # Undefined THEN "Email saved to R2 backup" ELSE "No routing rule found"

\* the excerpt limit of the alert (line 466) and the characters kept of a
\* longer text (line 467)
ExcerptLimit == 1000
ExcerptKept == 997
Ellipsis == <<".", ".", ".">>

UnableToRead == <<"Unable to read email content">>

\* emailContent.match(/(?:\r?\n){2,}(.*)/s) (line 462): the leftmost place
\* with two or more line breaks in a row; the group is everything after the
\* whole run of line breaks. Null when there is no such place.
BodyMatch(content) ==
    LET starts(i) == /\ LineBreakAt(content, i) > 0
                     /\ LineBreakAt(content, i + LineBreakAt(content, i)) > 0
    IN  IF \E i \in 1..Len(content) : starts(i)
        THEN LET first == CHOOSE i \in 1..Len(content) :
                              starts(i) /\ \A j \in 1..(i - 1) : ~starts(j)
             IN  SubSeq(content, AfterLineBreaks(content, first), Len(content))
        ELSE Null

\* mutant of Truncate: keeps ExcerptLimit characters before the dots
Truncate_KeepsLimit(s) ==
    IF Len(s) > ExcerptLimit THEN SubSeq(s, 1, ExcerptLimit) \o Ellipsis ELSE s

\* length > 1000 ? substring(0, 997) + "..." : unchanged (lines 466-468, 471-473)
Truncate(s) ==
    IF Len(s) > ExcerptLimit THEN SubSeq(s, 1, ExcerptKept) \o Ellipsis ELSE s

\* displayContent, lines 457-479: the trimmed body when the content has a
\* blank line, the content itself when it has none, each truncated
DisplayContent(content) ==
    IF ~Truthy(content) THEN UnableToRead
    ELSE IF BodyMatch(content) # Null
         THEN Truncate(Trim(BodyMatch(content)))
         ELSE Truncate(content)

\* mutant of AfterAlert: a failed webhook post propagates out of the handler
AfterAlert_Propagates(outcome) ==
    IF outcome \in {"non2xx", "fetchThrows"} THEN "thrown" ELSE "done"

\* where the run goes after sendDiscordAlert: it catches everything (lines
\* 551-553) and is the last statement of every path
AfterAlert(outcome) == "done"

\* sendDiscordAlert, lines 447-554: returns at once without a webhook URL;
\* otherwise posts the embed; a failed post or a non-2xx answer is logged
SendDiscordAlert ==
    /\ pc = "alert"
    /\ \E o \in (IF env.DISCORD_WEBHOOK_URL
                 THEN {"posted", "non2xx", "fetchThrows"}
                 ELSE {"noWebhook"}) :
         /\ alerts' = Append(alerts,
                [fields |-> AlertFields(message, targetEmail),
                 content |-> ContentArg(site, emailContent),
                 display |-> IF o = "noWebhook" THEN Undefined
                             ELSE DisplayContent(ContentArg(site, emailContent)),
                 error |-> caught, status |-> AlertStatus(targetEmail),
                 outcome |-> o])
         /\ pc' = AfterAlert(o)
    /\ trace' = Append(trace, "alert")
    /\ UNCHANGED <<emailBody, agent, message, env, now, rawState, targetEmail, emailContent, emailSubject,
                   analysis, caught, site, rawReads, oracleCalls, sends, forwards,
                   backups>>

Next ==
    \/ Route
    \/ ReadRaw
    \/ CallOracle
    \/ OracleNeverReturns
    \/ SendReply
    \/ OuterCatch
    \/ Forward
    \/ SaveEmailToR2
    \/ SendDiscordAlert

Spec == Init /\ [][Next]_vars

\* one message, every deployment: the runs whose progress is followed
LiveInit ==
    /\ Init
    /\ message = [from |-> <<"c", "@", "x">>, to |-> <<"s", "@", "a">>,
                  subject |-> <<"H", "i">>, messageId |-> "<abc@domain>",
                  raw |-> <<"S", ":", "H", "i", "\n", "\n", "H", "e", "y">>]

\* the handler is a chain of awaits on one event loop: whenever a step can
\* be taken it is taken
LiveSpec == LiveInit /\ [][Next]_vars /\ WF_vars(Next)

(***************************************************************************)
(* Vocabulary of the properties                                            *)
(***************************************************************************)
Finished == pc = "done"
Routed == pc # "start"
Resolved == Routed /\ targetEmail # Undefined
RoutingMiss == Routed /\ targetEmail = Undefined

\* a customer-reply send that issued its request to the mail provider
RequestedSends == {i \in 1..Len(sends) : MailgunRequested(sends[i].outcome)}
\* a customer-reply send that returned normally to email()
SuccessfulSends == {i \in 1..Len(sends) : MailgunReturned(sends[i].outcome)}
\* a customer-reply send that threw
FailedSends == {i \in 1..Len(sends) : ~MailgunReturned(sends[i].outcome)}
SuccessfulForwards == {i \in 1..Len(forwards) : forwards[i].ok}
FailedForwards == {i \in 1..Len(forwards) : ~forwards[i].ok}

\* the positions of an effect in the trace
Positions(tag) == {i \in 1..Len(trace) : trace[i] = tag}
\* every a of the trace comes before every b
AllBefore(a, b) == \A i \in Positions(a), j \in Positions(b) : i < j

NoSafetyNet == backups = <<>> /\ alerts = <<>>
OneBackupThenOneAlert ==
    Len(backups) = 1 /\ Len(alerts) = 1 /\ AllBefore("backup", "alert")

\* the oracle call returned an object (the analysis variable holds it)
OracleAnswered == Len(oracleCalls) = 1 /\ oracleCalls[1].result = "object"

(***************************************************************************)
(* The analysis agent (agent.js): one call of analyzeAndReply, made by the *)
(* agent's fetch handler (line 128) while email() awaits agent.fetch.      *)
(* One step per await: the binding check, connectToMcpServer, tool         *)
(* discovery, generateText with the validation that follows it.            *)
(***************************************************************************)
\* a reply field that is present but not a string
NotAString == <<"notAString">>

\* result.resolvedOutput: canReply a boolean, missing, or of another type;
\* reply missing, empty, white space only, not a string, or text; reason
\* missing or text.  An undefined output reads like an object with no fields.
ModelOutputs ==
    [canReply : {"true", "false", "absent", "notBoolean"},
     reply : {Null, <<>>, <<" ", "\n">>, NotAString, <<" ", "O", "K", " ">>},
     reason : {Undefined, "", "returns"}]

InvalidCanReply == "Invalid response format: missing or invalid 'canReply' field"
InvalidReply == "Invalid response format: missing or invalid 'reply' field"
GeneratedReply == "Agent generated a helpful reply using product information"
HumanAttention == "Email requires human attention"
NoAIBinding == "AI binding not available. Make sure 'ai' binding is configured in wrangler.jsonc"
ModelCallFailed == "model call failed"

\* mutant of Verdict: the output's canReply is passed on unchecked
Verdict_NoShapeCheck(parsedResponse) ==
    IF parsedResponse.canReply # "false"
    THEN IF ~Truthy(parsedResponse.reply) \/ parsedResponse.reply = NotAString
         THEN [canReply |-> parsedResponse.canReply, replyContent |-> Null,
               reason |-> InvalidReply]
         ELSE [canReply |-> parsedResponse.canReply,
               replyContent |-> Trim(parsedResponse.reply), reason |-> GeneratedReply]
    ELSE [canReply |-> "false", replyContent |-> Null,
          reason |-> IF parsedResponse.reason \in {Undefined, ""}
                     THEN HumanAttention ELSE parsedResponse.reason]

\* lines 301-332: the verdict made from the model's structured output
Verdict(parsedResponse) ==
    IF parsedResponse.canReply \notin {"true", "false"}
    THEN [canReply |-> "false", replyContent |-> Null, reason |-> InvalidCanReply]
    ELSE IF parsedResponse.canReply = "true"
         THEN IF ~Truthy(parsedResponse.reply) \/ parsedResponse.reply = NotAString
              THEN [canReply |-> "false", replyContent |-> Null, reason |-> InvalidReply]
              ELSE [canReply |-> "true", replyContent |-> Trim(parsedResponse.reply),
                    reason |-> GeneratedReply]
         ELSE [canReply |-> "false", replyContent |-> Null,
               reason |-> IF parsedResponse.reason \in {Undefined, ""}
                          THEN HumanAttention ELSE parsedResponse.reason]

\* the catch of lines 333-340
ErrorVerdict(errorMessage) ==
    [canReply |-> "false", replyContent |-> Null,
     reason |-> "Error during analysis: " \o errorMessage]

\* the registered MCP servers: id, name, state, and the tail of server_url
\* (none when the entry has no URL)
CalendarName == "Google Calendar"
ServerNames == {CalendarName, "Other"}
ServerStates == {"ready", "failed", "authenticating"}
ServerUrls == {"/sse", "/mcp", Undefined}
ServerKinds == [name : ServerNames, state : ServerStates, url : ServerUrls]

MaxServers == 2

Registries ==
    UNION { { { [id |-> i, name |-> f[i].name, state |-> f[i].state, url |-> f[i].url] :
                  i \in 1..k } : f \in [1..k -> ServerKinds] } : k \in 0..MaxServers }

\* s.server_url?.endsWith("/sse") (line 36)
EndsWithSse(url) == url = "/sse"

\* mutant of Stale: only the servers that are not ready are removed
Stale_KeepsOtherUrls(server) == server.state # "ready"

\* the filter of cleanupMcpServers with keepUrlEndsWith = "/sse" (lines
\* 31-42): not ready, or a URL that does not end in /sse; the name test of
\* line 39 returns false on both of its sides
Stale(server) == server.state # "ready" \/ ~EndsWithSse(server.url)

\* lines 74-78 and 170-174: name, state and s.server_url.endsWith("/sse")
ReadySse(servers) ==
    {x \in servers : x.name = CalendarName /\ x.state = "ready" /\ EndsWithSse(x.url)}

\* the entries on which s.server_url.endsWith throws: the name and state
\* tests pass and there is no URL
Unreadable(servers) ==
    {x \in servers : x.name = CalendarName /\ x.state = "ready" /\ x.url = Undefined}

\* servers.find(...) walks the list in order: it returns the first ready SSE
\* server, throws on an entry without URL met before one, or finds none
FindResults(servers) ==
    (IF ReadySse(servers) # {} THEN {"found"} ELSE {})
    \cup (IF Unreadable(servers) # {} THEN {"throws"} ELSE {})
    \cup (IF ReadySse(servers) = {} /\ Unreadable(servers) = {} THEN {"none"} ELSE {})

\* the id the registry gives the next server
NextId(servers) ==
    CHOOSE i \in 1..(Cardinality(servers) + 1) : \A x \in servers : x.id # i

\* addMcpServer("Google Calendar", origin + "/sse", ...) (lines 85-99): the
\* server as registered, by the state the call left it in
NewServer(servers, state) ==
    [id |-> NextId(servers), name |-> CalendarName, state |-> state, url |-> "/sse"]

\* how lines 82-115 end: new URL(MCP_SERVER_URL) throws (outside the try);
\* addMcpServer throws with or without an entry left behind; or it returns
\* with the server ready, authenticating or failed
AddOutcomes == {"badUrl", "throws", "throwsRegistered", "ready", "authenticating", "failed"}

AfterAdd(servers, outcome) ==
    CASE outcome \in {"badUrl", "throws"} -> servers
      [] outcome = "throwsRegistered" -> servers \cup {NewServer(servers, "failed")}
      [] OTHER -> servers \cup {NewServer(servers, outcome)}

\* mutant of AfterToolsFailure: the error ends the analysis
AfterToolsFailure_Rethrows(a) ==
    [a EXCEPT !.step = "returned",
              !.result = [canReply |-> "false", replyContent |-> Null,
                          reason |-> "Error during analysis: calendar tools"]]

\* the catches of lines 196-203 and 207-209 log the error, and the function
\* goes on to line 212 with calendarTools = {}
AfterToolsFailure(a) == [a EXCEPT !.step = "generate"]

\* mutant of CalendarTools: the tools are taken whenever discovery returned
CalendarTools_WithoutSuccess(outcome) == outcome \in {"tools", "discoverFailed"}

\* lines 184-189: calendarTools = mcpTools only when discovery succeeded and
\* getAITools returned at least one tool
CalendarTools(outcome) == outcome = "tools"

\* the agent has received POST /internal/analyze from a run of email() that
\* is awaiting agent.fetch (line 112)
AgentInit ==
    /\ message \in [from : Senders, to : {<<"s", "@", "a">>}, subject : {<<"H", "i">>},
                    messageId : {Undefined}, raw : RawContents]
    /\ env \in [EMAIL_ROUTING : {ExactKey :> TargetOf(ExactKey)},
                RETAIL_EMAIL_AGENT : {TRUE}, MAILGUN_DOMAIN : {TRUE}, MAILGUN_API_KEY : {TRUE},
                DISCORD_WEBHOOK_URL : {TRUE}, AI : BOOLEAN, MCP_SERVER_URL : BOOLEAN]
    /\ rawState = "used"
    /\ pc = "oracle"
    /\ targetEmail = TargetOf(ExactKey)
    /\ emailContent = message.raw
    /\ emailSubject = SubjectOrDefault(message.subject)
    /\ analysis = NoAnalysis
    /\ caught = "none"
    /\ site = "none"
    /\ rawReads = <<[by |-> "email", ok |-> TRUE]>>
    /\ oracleCalls = <<>>
    /\ sends = <<>>
    /\ forwards = <<>>
    /\ backups = <<>>
    /\ alerts = <<>>
    /\ trace = <<"rawRead">>
    /\ now = 0
    /\ emailBody = ExtractPlainTextBody(message.raw)
    /\ \E r \in {x \in Registries : Cardinality(x) <= 1} :
         agent = [AgentIdle EXCEPT !.step = "start", !.servers = r]

AgentUnchanged ==
    UNCHANGED <<message, env, rawState, pc, targetEmail, emailContent, emailSubject,
                analysis, caught, site, rawReads, oracleCalls, sends, forwards,
                backups, alerts, trace, now, emailBody>>

\* lines 152-160: without the AI binding the throw of line 155 lands in the
\* catch of line 333; with it, the calendar tools are fetched when an MCP
\* server is configured
CheckBinding ==
    /\ agent.step = "start"
    /\ agent' = IF ~env.AI
                THEN [agent EXCEPT !.step = "returned", !.result = ErrorVerdict(NoAIBinding)]
                ELSE IF env.MCP_SERVER_URL
                     THEN [agent EXCEPT !.step = "connect"]
                     ELSE [agent EXCEPT !.step = "generate", !.mcp = "notConfigured"]
    /\ AgentUnchanged

\* connectToMcpServer, lines 62-69, with cleanupMcpServers, lines 26-56:
\* getMcpServers throws, or every stale server is removed in turn, a
\* removeMcpServer that throws being logged and its server left in place
CleanupMcpServers ==
    /\ agent.step = "connect"
    /\ \/ agent' = AfterToolsFailure([agent EXCEPT !.mcp = "connectThrows",
                                                   !.calls = @ + 1])
       \/ \E failed \in SUBSET {x \in agent.servers : Stale(x)} :
            agent' = [agent EXCEPT !.step = "find", !.calls = @ + 1,
                        !.servers = {x \in @ : ~Stale(x) \/ x \in failed},
                        !.removalErrors = (failed # {})]
    /\ AgentUnchanged

\* connectToMcpServer, lines 71-115, then lines 166-179 and 204-209 of
\* analyzeAndReply: a ready SSE server is reused; without one a server is
\* added; then the ready SSE server is looked up again for discovery.  A
\* throw of servers.find or of new URL lands in the catch of line 207.
ConnectMcp ==
    /\ agent.step = "find"
    /\ \E f \in FindResults(agent.servers) :
         CASE f = "throws" ->
                agent' = AfterToolsFailure([agent EXCEPT !.mcp = "connectThrows"])
           [] f = "found" ->
                agent' = [agent EXCEPT !.step = "discover", !.mcp = "ready"]
           [] OTHER ->
                \E o \in AddOutcomes :
                  agent' = IF o = "badUrl"
                           THEN AfterToolsFailure([agent EXCEPT !.mcp = "connectThrows"])
                           ELSE IF ReadySse(AfterAdd(agent.servers, o)) # {}
                           THEN [agent EXCEPT !.step = "discover", !.mcp = "ready",
                                              !.servers = AfterAdd(@, o)]
                           ELSE [agent EXCEPT !.step = "generate", !.mcp = "notReady",
                                              !.servers = AfterAdd(@, o)]
    /\ AgentUnchanged

\* lines 179-203: discovery throws (caught at line 196), does not succeed,
\* yields no tools, or yields the calendar tools
DiscoverTools ==
    /\ agent.step = "discover"
    /\ \E o \in {"discoverThrows", "discoverFailed", "noTools", "tools"} :
         agent' = IF o = "discoverThrows"
                  THEN AfterToolsFailure([agent EXCEPT !.mcp = o])
                  ELSE [agent EXCEPT !.step = "generate", !.mcp = o,
                                     !.calendarTools = CalendarTools(o)]
    /\ AgentUnchanged

\* lines 286-340: generateText throws and the catch makes the verdict, or it
\* returns and the verdict is made from its output
GenerateText ==
    /\ agent.step = "generate"
    /\ \/ agent' = [agent EXCEPT !.step = "returned", !.generated = "threw",
                                  !.result = ErrorVerdict(ModelCallFailed)]
       \/ \E out \in ModelOutputs :
            agent' = [agent EXCEPT !.step = "returned", !.generated = "returned",
                                   !.output = out, !.result = Verdict(out)]
    /\ AgentUnchanged

AgentNext ==
    \/ CheckBinding
    \/ CleanupMcpServers
    \/ ConnectMcp
    \/ DiscoverTools
    \/ GenerateText

AgentSpec == AgentInit /\ [][AgentNext]_vars

(***************************************************************************)
(* Extraction: runs of email() from the raw read on, for raw messages      *)
(* built from a few headers, separators and bodies, and for multipart      *)
(* messages built from lists of parts.                                     *)
(***************************************************************************)
MaxParts == 2

PartKinds == {"plain", "plainSigned", "plainEmpty", "html", "csv", "png"}

\* one MIME part, from the line after its boundary marker to the line break
\* before the next one
PartSource(kind) ==
    CASE kind = "plain" -> <<"C", "o", "n", "t", "e", "n", "t", "-", "T", "y", "p", "e", ":",
            " ", "t", "e", "x", "t", "/", "p", "l", "a", "i", "n", "\n",
            "\n", "H", "i", "\n">>
      [] kind = "plainSigned" -> <<"C", "o", "n", "t", "e", "n", "t", "-", "T", "y", "p", "e", ":",
            " ", "t", "e", "x", "t", "/", "p", "l", "a", "i", "n", "\n",
            "\n", "H", "i", "\n", "-", "-", " ", "\n", "J", "o", "\n">>
      [] kind = "plainEmpty" -> <<"C", "o", "n", "t", "e", "n", "t", "-", "T", "y", "p", "e", ":",
            " ", "t", "e", "x", "t", "/", "p", "l", "a", "i", "n", "\n",
            "\n", "\n">>
      [] kind = "html" -> <<"C", "o", "n", "t", "e", "n", "t", "-", "T", "y", "p", "e", ":",
            " ", "t", "e", "x", "t", "/", "h", "t", "m", "l", "\n", "\n",
            "<", "b", ">", "H", "o", "<", "/", "b", ">", " ", "&", "a", "m",
            "p", ";", " ", "y", "o", "u", "\n">>
      [] kind = "csv" -> <<"C", "o", "n", "t", "e", "n", "t", "-", "T", "y", "p", "e", ":",
            " ", "t", "e", "x", "t", "/", "c", "s", "v", "\n", "\n", "a",
            ",", "b", "\n">>
      [] kind = "png" -> <<"C", "o", "n", "t", "e", "n", "t", "-", "T", "y", "p", "e", ":",
            " ", "i", "m", "a", "g", "e", "/", "p", "n", "g", "\n", "\n",
            "Q", "U", "J", "D", "\n">>

PartLists == UNION { [1..n -> PartKinds] : n \in 1..MaxParts }

MultipartHeaders == <<"S", ":", "H", "i", "\n", "C", "o", "n", "t", "e", "n", "t", "-",
        "T", "y", "p", "e", ":", " ", "m", "u", "l", "t", "i", "p", "a", "r",
        "t", "/", "m", "i", "x", "e", "d", ";", " ", "b", "o", "u", "n", "d",
        "a", "r", "y", "=", "\"", "B", "\"">>

RECURSIVE MultipartBodyFrom(_, _)
MultipartBodyFrom(ps, k) ==
    IF k > Len(ps) THEN <<"-", "-", "B", "-", "-">>
    ELSE <<"-", "-", "B", "\n">> \o PartSource(ps[k]) \o MultipartBodyFrom(ps, k + 1)

\* the body of a multipart message with parts ps, without its last line break
MultipartBody(ps) == MultipartBodyFrom(ps, 1)

Multipart(ps) == MultipartHeaders \o <<"\n", "\n">> \o MultipartBody(ps) \o <<"\n">>

SimpleHeaders ==
    { <<"S", ":", "H", "i">>,
      <<"C", "o", "n", "t", "e", "n", "t", "-", "T", "y", "p", "e", ":", " ",
        "t", "e", "x", "t", "/", "p", "l", "a", "i", "n">>,
      <<"C", "o", "n", "t", "e", "n", "t", "-", "T", "y", "p", "e", ":", " ",
        "m", "u", "l", "t", "i", "p", "a", "r", "t", "/", "m", "i", "x", "e",
        "d">> }

Separators == { <<"\n", "\n">>, <<"\r", "\n", "\r", "\n">>, <<"\n", "\n", "\n">> }

\* bodies that start and end with a character trim keeps
SimpleTexts == { <<"H", "e", "y">>, <<"a", "\n", "\n", "b">>, <<"-", "-", " ", "J", "o">> }

Paddings == { <<>>, <<" ">>, <<"\n">> }

\* headers, a blank line, and a text with white space after it
Simple(headers, separator, text, padding) == headers \o separator \o text \o padding

SimpleInputs ==
    { Simple(h, sep, t, pad) : h \in SimpleHeaders, sep \in Separators,
                               t \in SimpleTexts, pad \in Paddings }

\* a text with no blank line in it, inside white space
Unseparated(text, padding) == padding \o text \o padding

UnseparatedTexts == { <<"S", ":", "H", "i">>, <<"S", ":", "H", "i", "\n", "H", "e", "y">> }

UnseparatedInputs == { Unseparated(t, pad) : t \in UnseparatedTexts, pad \in Paddings }

ExtractInputs ==
    { Multipart(ps) : ps \in PartLists } \cup SimpleInputs \cup UnseparatedInputs

\* a run with a resolved target, about to read message.raw (line 67)
ExtractInit ==
    /\ message \in [from : {<<"c", "@", "x">>}, to : {<<"s", "@", "a">>},
                    subject : {<<"H", "i">>}, messageId : {Undefined},
                    raw : ExtractInputs]
    /\ env = [EMAIL_ROUTING |-> (ExactKey :> TargetOf(ExactKey)),
              RETAIL_EMAIL_AGENT |-> TRUE, MAILGUN_DOMAIN |-> TRUE, MAILGUN_API_KEY |-> TRUE,
              DISCORD_WEBHOOK_URL |-> TRUE]
    /\ rawState = "fresh"
    /\ pc = "read"
    /\ targetEmail = TargetOf(ExactKey)
    /\ emailContent = Null
    /\ emailSubject = Null
    /\ analysis = NoAnalysis
    /\ caught = "none"
    /\ site = "none"
    /\ rawReads = <<>>
    /\ oracleCalls = <<>>
    /\ sends = <<>>
    /\ forwards = <<>>
    /\ backups = <<>>
    /\ alerts = <<>>
    /\ trace = <<>>
    /\ now = 0
    /\ emailBody = Null
    /\ agent = AgentIdle

ExtractNext ==
    \/ ReadRaw
    \/ CallOracle

ExtractSpec == ExtractInit /\ [][ExtractNext]_vars

(***************************************************************************)
(* Subject threads: the customer-reply step applied to every short subject *)
(* line, and again to the customer's answer to that reply, which comes in  *)
(* with the subject the reply went out with.                               *)
(***************************************************************************)
MaxSubjectLen == 4
MaxThreadRuns == 2

SubjectAlphabet == {"r", "R", "e", "E", ":", " ", "x"}

RECURSIVE StringsUpTo(_, _)
StringsUpTo(alphabet, n) ==
    IF n = 0 THEN { <<>> }
    ELSE LET shorter == StringsUpTo(alphabet, n - 1)
         IN  shorter \cup { Append(t, c) : t \in shorter, c \in alphabet }

SubjectHeaders == {Null} \cup StringsUpTo(SubjectAlphabet, MaxSubjectLen)

\* a run that has read the message, got canReply=true from the oracle and is
\* about to call sendReplyToCustomer (line 134)
SubjectInit ==
    /\ message \in [from : {<<"c", "@", "x">>}, to : {<<"s", "@", "a">>},
                    subject : SubjectHeaders, messageId : {Undefined},
                    raw : {<<"S", ":", "H", "i", "\n", "\n", "H", "e", "y">>}]
    /\ env = [EMAIL_ROUTING |-> (ExactKey :> TargetOf(ExactKey)),
              RETAIL_EMAIL_AGENT |-> TRUE, MAILGUN_DOMAIN |-> TRUE, MAILGUN_API_KEY |-> TRUE,
              DISCORD_WEBHOOK_URL |-> TRUE]
    /\ rawState = "used"
    /\ pc = "reply"
    /\ targetEmail = TargetOf(ExactKey)
    /\ emailContent = message.raw
    /\ emailSubject = SubjectOrDefault(message.subject)
    /\ analysis = [canReply |-> "true", replyContent |-> <<"O", "K">>]
    /\ caught = "none"
    /\ site = "none"
    /\ rawReads = <<[by |-> "email", ok |-> TRUE]>>
    /\ oracleCalls = <<OracleCall(message, ExtractPlainTextBody(message.raw), "object")>>
    /\ sends = <<>>
    /\ forwards = <<>>
    /\ backups = <<>>
    /\ alerts = <<>>
    /\ trace = <<"rawRead", "oracle">>
    /\ now = 0
    /\ emailBody = ExtractPlainTextBody(message.raw)
    /\ agent = AgentIdle

\* the customer answers the reply: the next inbound message of the thread
\* has the subject the reply was sent with, and its run reaches line 134 too
AnswerArrives ==
    /\ pc = "done"
    /\ sends # <<>>
    /\ Len(sends) < MaxThreadRuns
    /\ message' = [message EXCEPT !.subject = sends[Len(sends)].subject]
    /\ emailSubject' = SubjectOrDefault(sends[Len(sends)].subject)
    /\ pc' = "reply"
    /\ UNCHANGED <<emailBody, agent, env, now, rawState, targetEmail, emailContent, analysis, caught,
                   site, rawReads, oracleCalls, sends, forwards, backups, alerts,
                   trace>>

SubjectNext ==
    \/ SendReply
    \/ AnswerArrives

SubjectSpec == SubjectInit /\ [][SubjectNext]_vars

(***************************************************************************)
(* The Replying branch under every mailer configuration: runs that have    *)
(* read the message, got canReply=true from the oracle and are about to    *)
(* call sendReplyToCustomer (line 134), with MAILGUN_DOMAIN and            *)
(* MAILGUN_API_KEY each set or missing.                                    *)
(***************************************************************************)
MailerInit ==
    /\ message \in [from : Senders, to : {<<"s", "@", "a">>},
                    subject : {Null, <<"H", "i">>}, messageId : MessageIds,
                    raw : {<<"S", ":", "H", "i", "\n", "\n", "H", "e", "y">>}]
    /\ env \in [EMAIL_ROUTING : {(ExactKey :> TargetOf(ExactKey))},
                RETAIL_EMAIL_AGENT : {TRUE}, MAILGUN_DOMAIN : BOOLEAN,
                MAILGUN_API_KEY : BOOLEAN, DISCORD_WEBHOOK_URL : BOOLEAN]
    /\ rawState = "used"
    /\ pc = "reply"
    /\ targetEmail = TargetOf(ExactKey)
    /\ emailContent = message.raw
    /\ emailSubject = SubjectOrDefault(message.subject)
    /\ analysis = [canReply |-> "true", replyContent |-> <<"O", "K">>]
    /\ caught = "none"
    /\ site = "none"
    /\ rawReads = <<[by |-> "email", ok |-> TRUE]>>
    /\ oracleCalls = <<OracleCall(message, ExtractPlainTextBody(message.raw), "object")>>
    /\ sends = <<>>
    /\ forwards = <<>>
    /\ backups = <<>>
    /\ alerts = <<>>
    /\ trace = <<"rawRead", "oracle">>
    /\ now = 0
    /\ emailBody = ExtractPlainTextBody(message.raw)
    /\ agent = AgentIdle

MailerNext ==
    \/ SendReply
    \/ Forward
    \/ SaveEmailToR2
    \/ SendDiscordAlert

MailerSpec == MailerInit /\ [][MailerNext]_vars

(***************************************************************************)
(* Backups of several runs: runs for different inbound messages whose      *)
(* forward failed, each in saveEmailToR2.  A run reads the clock and       *)
(* builds its key (lines 409-410), then awaits the put (line 424); other   *)
(* runs and the clock move in between.                                     *)
(***************************************************************************)
MaxClock == 1
MaxBackupRuns == 3

BackupSenders == { <<"a", ".", "b", "@", "x">>, <<"a", "_", "b", "@", "x">> }

BackupMessages ==
    [from : BackupSenders, to : {<<"s", "@", "a">>}, subject : {<<"H", "i">>},
     messageId : {Undefined}, raw : RawContents]

\* the message a saveEmailToR2 call was made for, as far as the call shows it
BackupOf(rec) == [from |-> rec.metadata.from, raw |-> rec.body]

BackupInit ==
    /\ message \in BackupMessages
    /\ env = [EMAIL_ROUTING |-> (ExactKey :> TargetOf(ExactKey)),
              RETAIL_EMAIL_AGENT |-> FALSE, MAILGUN_DOMAIN |-> TRUE, MAILGUN_API_KEY |-> TRUE,
              DISCORD_WEBHOOK_URL |-> TRUE]
    /\ rawState = "used"
    /\ pc = "backup"
    /\ targetEmail = TargetOf(ExactKey)
    /\ emailContent = message.raw
    /\ emailSubject = SubjectOrDefault(message.subject)
    /\ analysis = NoAnalysis
    /\ caught = AlertError("noAgent", "none")
    /\ site = "noAgent"
    /\ rawReads = <<[by |-> "email", ok |-> TRUE]>>
    /\ oracleCalls = <<>>
    /\ sends = <<>>
    /\ forwards = <<[to |-> TargetOf(ExactKey), site |-> "noAgent", ok |-> FALSE]>>
    /\ backups = <<>>
    /\ alerts = <<>>
    /\ trace = <<"rawRead", "forward">>
    /\ now = 0
    /\ emailBody = ExtractPlainTextBody(message.raw)
    /\ agent = AgentIdle

\* new Date() moves on
Tick ==
    /\ now < MaxClock
    /\ now' = now + 1
    /\ UNCHANGED <<emailBody, agent, message, env, rawState, pc, targetEmail, emailContent, emailSubject,
                   analysis, caught, site, rawReads, oracleCalls, sends, forwards,
                   backups, alerts, trace>>

\* lines 409-422 of the run for message m: timestamp, key and body are fixed,
\* the put is still to come
BackupStarts ==
    /\ Len(backups) < MaxBackupRuns
    /\ \E m \in BackupMessages :
         /\ \A i \in 1..Len(backups) : BackupOf(backups[i]) # [from |-> m.from, raw |-> m.raw]
         /\ message' = m
         /\ emailContent' = m.raw
         /\ backups' = Append(backups, BackupRecord(m, targetEmail, now, m.raw, "pending"))
    /\ UNCHANGED <<emailBody, agent, env, now, rawState, pc, targetEmail, emailSubject, analysis, caught,
                   site, rawReads, oracleCalls, sends, forwards, alerts, trace>>

\* lines 424-436 of a run that has its key: the put resolves or rejects
BackupPuts ==
    /\ \E i \in 1..Len(backups) :
         /\ backups[i].outcome = "pending"
         /\ \E o \in {"stored", "putFailed"} :
              backups' = [backups EXCEPT ![i].outcome = o]
    /\ UNCHANGED <<emailBody, agent, message, env, now, rawState, pc, targetEmail, emailContent,
                   emailSubject, analysis, caught, site, rawReads, oracleCalls, sends,
                   forwards, alerts, trace>>

BackupNext ==
    \/ Tick
    \/ BackupStarts
    \/ BackupPuts

BackupSpec == BackupInit /\ [][BackupNext]_vars

(***************************************************************************)
(* Alerts for long messages: runs whose forward failed without an agent    *)
(* namespace (lines 91-105), for raw messages whose length is small or     *)
(* close to the excerpt limit, from saveEmailToR2 on.                      *)
(***************************************************************************)
MaxSlack == 4

ExcerptLengths ==
    (1..MaxSlack) \cup ((ExcerptLimit - MaxSlack)..(ExcerptLimit + MaxSlack))

Xs(n) == [i \in 1..n |-> "x"]

ExcerptShapes == {"body", "crlfBody", "paddedBody", "noSeparator"}

\* a raw message whose text to show is Xs(n): after a blank line, after a
\* CRLF blank line, after a blank line and inside white space, or, with no
\* blank line at all, the whole message
ExcerptInput(shape, n) ==
    CASE shape = "body" -> <<"S", ":", "x", "\n", "\n">> \o Xs(n)
      [] shape = "crlfBody" -> <<"S", ":", "x", "\r", "\n", "\r", "\n">> \o Xs(n)
      [] shape = "paddedBody" ->
             <<"S", ":", "x", "\n", "\n", "\n", " ">> \o Xs(n) \o <<" ", "\n">>
      [] shape = "noSeparator" -> Xs(n)

ExcerptInit ==
    /\ \E shape \in ExcerptShapes, n \in ExcerptLengths :
         message = [from |-> <<"c", "@", "x">>, to |-> <<"s", "@", "a">>,
                    subject |-> <<"H", "i">>, messageId |-> Undefined,
                    raw |-> ExcerptInput(shape, n)]
    /\ env = [EMAIL_ROUTING |-> (ExactKey :> TargetOf(ExactKey)),
              RETAIL_EMAIL_AGENT |-> FALSE, MAILGUN_DOMAIN |-> TRUE, MAILGUN_API_KEY |-> TRUE,
              DISCORD_WEBHOOK_URL |-> TRUE]
    /\ rawState = "used"
    /\ pc = "backup"
    /\ targetEmail = TargetOf(ExactKey)
    /\ emailContent = message.raw
    /\ emailSubject = SubjectOrDefault(message.subject)
    /\ analysis = NoAnalysis
    /\ caught = AlertError("noAgent", "none")
    /\ site = "noAgent"
    /\ rawReads = <<[by |-> "email", ok |-> TRUE]>>
    /\ oracleCalls = <<>>
    /\ sends = <<>>
    /\ forwards = <<[to |-> TargetOf(ExactKey), site |-> "noAgent", ok |-> FALSE]>>
    /\ backups = <<>>
    /\ alerts = <<>>
    /\ trace = <<"rawRead", "forward">>
    /\ now = 0
    /\ emailBody = ExtractPlainTextBody(message.raw)
    /\ agent = AgentIdle

ExcerptNext ==
    \/ SaveEmailToR2
    \/ SendDiscordAlert

ExcerptSpec == ExcerptInit /\ [][ExcerptNext]_vars

(***************************************************************************)
(* MCP connection management over several analyze requests: the agent is a *)
(* Durable Object, its server registry outlives a request, and every       *)
(* request with MCP_SERVER_URL set calls connectToMcpServer (line 163).    *)
(* Between requests a registered server may lose its connection.           *)
(***************************************************************************)
MaxCalls == 2

McpInit ==
    /\ message = [from |-> <<"c", "@", "x">>, to |-> <<"s", "@", "a">>,
                  subject |-> <<"H", "i">>, messageId |-> Undefined,
                  raw |-> <<"S", ":", "H", "i", "\n", "\n", "H", "e", "y">>]
    /\ env = [EMAIL_ROUTING |-> (ExactKey :> TargetOf(ExactKey)),
              RETAIL_EMAIL_AGENT |-> TRUE, MAILGUN_DOMAIN |-> TRUE,
              MAILGUN_API_KEY |-> TRUE, DISCORD_WEBHOOK_URL |-> TRUE,
              AI |-> TRUE, MCP_SERVER_URL |-> TRUE]
    /\ rawState = "used"
    /\ pc = "oracle"
    /\ targetEmail = TargetOf(ExactKey)
    /\ emailContent = message.raw
    /\ emailSubject = SubjectOrDefault(message.subject)
    /\ analysis = NoAnalysis
    /\ caught = "none"
    /\ site = "none"
    /\ rawReads = <<[by |-> "email", ok |-> TRUE]>>
    /\ oracleCalls = <<>>
    /\ sends = <<>>
    /\ forwards = <<>>
    /\ backups = <<>>
    /\ alerts = <<>>
    /\ trace = <<"rawRead">>
    /\ now = 0
    /\ emailBody = ExtractPlainTextBody(message.raw)
    /\ \E r \in Registries : agent = [AgentIdle EXCEPT !.step = "connect", !.servers = r]

\* the next analyze request reaches line 163
CallAgain ==
    /\ agent.step \in {"discover", "generate"}
    /\ agent.calls < MaxCalls
    /\ agent' = [agent EXCEPT !.step = "connect", !.mcp = "none",
                              !.removalErrors = FALSE]
    /\ AgentUnchanged

\* between requests a ready server loses its connection
ServerFails ==
    /\ agent.step \in {"discover", "generate"}
    /\ \E x \in agent.servers :
         /\ x.state = "ready"
         /\ agent' = [agent EXCEPT !.servers =
                        (@ \ {x}) \cup {[x EXCEPT !.state = "failed"]}]
    /\ AgentUnchanged

McpNext ==
    \/ CleanupMcpServers
    \/ ConnectMcp
    \/ CallAgain
    \/ ServerFails

McpSpec == McpInit /\ [][McpNext]_vars

(***************************************************************************)
(* Runs for several inbound messages, each at its agent.fetch (line 112):  *)
(* the oracle calls of all of them, by the instance each one addresses.    *)
(***************************************************************************)
MaxOracleRuns == 2

\* senders of the messages: two customers, and one address in two spellings
OracleSenders == Senders \cup { <<"C", "@", "x">> }

OracleRunsInit ==
    /\ message \in [from : OracleSenders, to : {<<"s", "@", "a">>},
                    subject : {<<"H", "i">>}, messageId : {Undefined},
                    raw : RawContents]
    /\ env = [EMAIL_ROUTING |-> (ExactKey :> TargetOf(ExactKey)),
              RETAIL_EMAIL_AGENT |-> TRUE, MAILGUN_DOMAIN |-> TRUE,
              MAILGUN_API_KEY |-> TRUE, DISCORD_WEBHOOK_URL |-> TRUE]
    /\ rawState = "used"
    /\ pc = "oracle"
    /\ targetEmail = TargetOf(ExactKey)
    /\ emailContent = message.raw
    /\ emailSubject = SubjectOrDefault(message.subject)
    /\ analysis = NoAnalysis
    /\ caught = "none"
    /\ site = "none"
    /\ rawReads = <<[by |-> "email", ok |-> TRUE]>>
    /\ oracleCalls = <<>>
    /\ sends = <<>>
    /\ forwards = <<>>
    /\ backups = <<>>
    /\ alerts = <<>>
    /\ trace = <<"rawRead">>
    /\ now = 0
    /\ emailBody = ExtractPlainTextBody(message.raw)
    /\ agent = AgentIdle

\* the run of another inbound message reaches line 107
NextMessage ==
    /\ pc # "oracle"
    /\ Len(oracleCalls) < MaxOracleRuns
    /\ \E f \in OracleSenders, r \in RawContents :
         /\ message' = [message EXCEPT !.from = f, !.raw = r]
         /\ emailContent' = r
         /\ emailBody' = ExtractPlainTextBody(r)
    /\ pc' = "oracle"
    /\ analysis' = NoAnalysis
    /\ caught' = "none"
    /\ site' = "none"
    /\ UNCHANGED <<agent, env, now, rawState, targetEmail, emailSubject, rawReads,
                   oracleCalls, sends, forwards, backups, alerts, trace>>

OracleRunsNext ==
    \/ CallOracle
    \/ NextMessage

OracleRunsSpec == OracleRunsInit /\ [][OracleRunsNext]_vars

(***************************************************************************)
(* C1: a run of email() with a resolved target never finishes before at    *)
(* least one delivery attempt was made - a customer-reply request to the   *)
(* mail provider or a message.forward to the resolved target - whatever    *)
(* fails among raw read, oracle, reply send, forward, backup and alert.    *)
(***************************************************************************)
C1_DeliveryAttempted ==
    (Finished /\ Resolved) =>
        \/ RequestedSends # {}
        \/ \E i \in 1..Len(forwards) : forwards[i].to = targetEmail

\* the oracle failed, the outer catch could not read the content, its forward,
\* the backup and the alert all failed, and the run finished
C1_Witness ==
    /\ Finished /\ Resolved
    /\ site = "outer"
    /\ Len(forwards) = 1 /\ ~forwards[1].ok
    /\ Len(backups) = 1 /\ backups[1].outcome = "readFailed"
    /\ Len(alerts) = 1 /\ alerts[1].outcome = "fetchThrows"

(***************************************************************************)
(* C2: no message is silently discarded: a finished run in which no        *)
(* customer-reply send and no message.forward succeeded has called         *)
(* sendDiscordAlert and, when a target was resolved, saveEmailToR2.        *)
(***************************************************************************)
C2_NeverSilentlyDiscarded ==
    (Finished /\ SuccessfulSends = {} /\ SuccessfulForwards = {}) =>
        /\ Len(alerts) >= 1
        /\ Resolved => Len(backups) >= 1

\* a finished run with a resolved target whose reply send and fallback
\* forward both failed
C2_Witness ==
    /\ Finished /\ Resolved
    /\ FailedSends # {} /\ FailedForwards # {}
    /\ SuccessfulSends = {} /\ SuccessfulForwards = {}
    /\ Len(backups) >= 1 /\ Len(alerts) >= 1

(***************************************************************************)
(* C3: in the Replying branch, a failed customer-reply send is followed by *)
(* exactly one message.forward to the resolved target; if it succeeds no   *)
(* backup and no alert occur, if it fails one backup write and then one    *)
(* alert are attempted.                                                    *)
(***************************************************************************)
C3_ReplyFailureFallback ==
    (OracleAnswered /\ ShouldReply(analysis) /\ FailedSends # {}) =>
        /\ Len(sends) = 1
        /\ Len(forwards) <= 1
        /\ \A i \in 1..Len(forwards) : forwards[i].to = targetEmail
        /\ AllBefore("reply", "forward")
        /\ forwards = <<>> => (NoSafetyNet /\ ~Finished)
        /\ SuccessfulForwards # {} => (NoSafetyNet /\ Finished)
        /\ (FailedForwards # {} /\ Finished) => OneBackupThenOneAlert
        /\ FailedForwards # {} => AllBefore("forward", "backup")

\* the reply send failed, the fallback forward failed, backup and alert followed
C3_Witness ==
    /\ Finished /\ OracleAnswered /\ ShouldReply(analysis)
    /\ Len(sends) = 1 /\ sends[1].outcome = "non2xx"
    /\ Len(forwards) = 1 /\ ~forwards[1].ok
    /\ trace = <<"rawRead", "oracle", "reply", "forward", "backup", "alert">>

(***************************************************************************)
(* C4: when a target is resolved and both the customer-reply send and the  *)
(* fallback message.forward throw, the finished run has made exactly one   *)
(* backup write and exactly one alert call, both carrying the original     *)
(* sender and the resolved target, and no customer-reply send succeeded.   *)
(***************************************************************************)
C4_DoubleFailureSafed ==
    (Finished /\ Resolved /\ FailedSends # {} /\ FailedForwards # {}) =>
        /\ Len(backups) = 1
        /\ backups[1].outcome \in {"stored", "putFailed"}
        /\ backups[1].metadata.from = message.from
        /\ backups[1].metadata.targetEmail = targetEmail
        /\ Len(alerts) = 1
        /\ alerts[1].fields.from = message.from
        /\ alerts[1].fields.targetEmail = targetEmail
        /\ SuccessfulSends = {}

\* the provider rejected the reply, the forward threw, the backup was stored
\* and the alert was posted
C4_Witness ==
    /\ Finished /\ Resolved
    /\ Len(sends) = 1 /\ sends[1].outcome = "fetchThrows"
    /\ Len(forwards) = 1 /\ ~forwards[1].ok
    /\ Len(backups) = 1 /\ backups[1].outcome = "stored"
    /\ Len(alerts) = 1 /\ alerts[1].outcome = "posted"
    /\ message.from = <<"d", "@", "x">>

(***************************************************************************)
(* C5: when the oracle returns canReply=true with a non-empty reply and    *)
(* the customer-reply send succeeds, the run makes exactly one customer-   *)
(* reply send, to the original sender, cc the resolved target, and makes   *)
(* no message.forward, no backup write and no alert.  As stated, the       *)
(* subject of that send is "Re: " followed by the original subject.        *)
(***************************************************************************)
C5_ReplyCase == OracleAnswered /\ ShouldReply(analysis) /\ SuccessfulSends # {}

C5_OneReplyNothingElse ==
    /\ Len(sends) = 1
    /\ sends[1].to = message.from
    /\ sends[1].cc = targetEmail
    /\ forwards = <<>>
    /\ NoSafetyNet

C5_OriginalSubject == SubjectOrDefault(message.subject)

\* the original subject already starts with "re:", in any letter case
C5_IsReplySubject(subject) ==
    /\ Len(subject) >= 3
    /\ subject[1] \in {"r", "R"}
    /\ subject[2] \in {"e", "E"}
    /\ subject[3] = ":"

\* C5 as stated: the subject is always "Re: " + the original subject
C5_AsStated ==
    C5_ReplyCase =>
        /\ C5_OneReplyNothingElse
        /\ sends[1].subject = <<"R", "e", ":", " ">> \o C5_OriginalSubject

\* C5 as amended: the subject is "Re: " + the original subject, except that an
\* original subject already starting with "re:" (any letter case) is sent
\* unchanged
C5_ReplyDelivered ==
    C5_ReplyCase =>
        /\ C5_OneReplyNothingElse
        /\ sends[1].subject =
              IF C5_IsReplySubject(C5_OriginalSubject)
              THEN C5_OriginalSubject
              ELSE <<"R", "e", ":", " ">> \o C5_OriginalSubject

\* a successful reply to a message whose subject is "RE: Hi"
C5_Witness ==
    /\ Finished /\ C5_ReplyCase
    /\ message.subject = <<"R", "E", ":", " ", "H", "i">>
    /\ sends[1].subject = <<"R", "E", ":", " ", "H", "i">>
    /\ sends[1].outcome = "ok"

(***************************************************************************)
(* C6: when the analysis has canReply=false, or canReply=true with missing *)
(* or empty replyContent, the run attempts exactly one message.forward to  *)
(* the resolved target and never a customer-reply send; a failed forward   *)
(* is followed by backup and alert, a successful one by neither.           *)
(***************************************************************************)
C6_ForwardingCase ==
    /\ OracleAnswered
    /\ \/ analysis.canReply = "false"
       \/ analysis.canReply = "true" /\ analysis.replyContent \in {Null, <<>>}

C6_ForwardingBranch ==
    C6_ForwardingCase =>
        /\ sends = <<>>
        /\ Len(forwards) <= 1
        /\ \A i \in 1..Len(forwards) : forwards[i].to = targetEmail
        /\ Finished => Len(forwards) = 1
        /\ SuccessfulForwards # {} => (NoSafetyNet /\ Finished)
        /\ (FailedForwards # {} /\ Finished) => OneBackupThenOneAlert
        /\ forwards = <<>> => NoSafetyNet

\* canReply=true with an empty replyContent: forwarded, the forward failed
C6_Witness ==
    /\ Finished /\ OracleAnswered
    /\ analysis = [canReply |-> "true", replyContent |-> <<>>]
    /\ Len(forwards) = 1 /\ ~forwards[1].ok
    /\ Len(backups) = 1 /\ Len(alerts) = 1

(***************************************************************************)
(* C7: target resolution returns, for the lower-cased recipient, the       *)
(* table's exact-key entry if present; otherwise the entry for "@" + the   *)
(* part after "@"; otherwise the entry for "@default"; otherwise NotFound  *)
(* (undefined).  Recipients that differ only in letter case resolve to the *)
(* same result for every routing table.                                    *)
(***************************************************************************)
\* the part after "@": from the first "@" up to a further "@" or the end
C7_PartAfterAt(r) ==
    LET i == CHOOSE i \in 1..Len(r) :
                 r[i] = "@" /\ \A j \in 1..(i - 1) : r[j] # "@"
        n == CHOOSE n \in 0..(Len(r) - i) :
                 /\ \A k \in 1..n : r[i + k] # "@"
                 /\ (i + n = Len(r) \/ r[i + n + 1] = "@")
    IN  SubSeq(r, i + 1, i + n)

C7_Expected(to, table) ==
    LET r == ToLowerCase(to)
        hasAt == \E i \in 1..Len(r) : r[i] = "@"
        catchAllKey == <<"@">> \o C7_PartAfterAt(r)
    IN  IF r \in DOMAIN table THEN table[r]
        ELSE IF hasAt /\ catchAllKey \in DOMAIN table THEN table[catchAllKey]
        ELSE IF DefaultKey \in DOMAIN table THEN table[DefaultKey]
        ELSE Undefined

C7_RoutingPrecedence ==
    Routed =>
        /\ targetEmail = C7_Expected(message.to, env.EMAIL_ROUTING)
        /\ \A other \in Recipients :
              ToLowerCase(other) = ToLowerCase(message.to) =>
                  ResolveTarget(other, env.EMAIL_ROUTING) = targetEmail

\* "S@A" against a table holding the exact key, the catch-all and the default
C7_Witness ==
    /\ Routed
    /\ message.to = <<"S", "@", "A">>
    /\ DOMAIN env.EMAIL_ROUTING = RoutingKeys
    /\ targetEmail = "sales@corp"

C9_MissSavedAndAlerted ==
    (Finished /\ RoutingMiss) => (Len(backups) >= 1 /\ Len(alerts) >= 1)

(***************************************************************************)
(* C10: if the oracle invocation fails in email() (agent.fetch throws, or  *)
(* the response is not JSON), the run attempts exactly one message.forward *)
(* to the resolved target and no customer-reply send, and calls backup and *)
(* alert only if that forward fails.                                       *)
(***************************************************************************)
C10_OracleFailed ==
    Len(oracleCalls) = 1 /\ oracleCalls[1].result \in {"fetchThrows", "jsonThrows"}

C10_OracleFailureForwards ==
    C10_OracleFailed =>
        /\ sends = <<>>
        /\ Len(forwards) <= 1
        /\ \A i \in 1..Len(forwards) : forwards[i].to = targetEmail
        /\ Finished => Len(forwards) = 1
        /\ (backups # <<>> \/ alerts # <<>>) => FailedForwards # {}
        /\ SuccessfulForwards # {} => (NoSafetyNet /\ Finished)

\* the response was not JSON and the forward of the outer catch succeeded
C10_Witness ==
    /\ Finished
    /\ Len(oracleCalls) = 1 /\ oracleCalls[1].result = "jsonThrows"
    /\ Len(forwards) = 1 /\ forwards[1].ok /\ forwards[1].site = "outer"
    /\ NoSafetyNet

(***************************************************************************)
(* C11: if the oracle returns an object without a canReply field (such as  *)
(* {}), the run ends as for canReply=false - one message.forward to the    *)
(* resolved target from the no-reply branch, no customer-reply send - and  *)
(* nothing is thrown (the outer catch is not entered).                     *)
(***************************************************************************)
C11_MalformedCase == OracleAnswered /\ analysis.canReply = "absent"

C11_MalformedVerdictForwards ==
    C11_MalformedCase =>
        /\ sends = <<>>
        /\ pc # "outer"
        /\ \A i \in 1..Len(rawReads) : rawReads[i].by # "outerCatch"
        /\ Len(forwards) <= 1
        /\ \A i \in 1..Len(forwards) :
              forwards[i].to = targetEmail /\ forwards[i].site = "noReply"
        /\ Finished => Len(forwards) = 1
        /\ SuccessfulForwards # {} => (NoSafetyNet /\ Finished)
        /\ (FailedForwards # {} /\ Finished) => OneBackupThenOneAlert

\* the verdict has no canReply but carries a reply text; the run forwarded
C11_Witness ==
    /\ Finished /\ OracleAnswered
    /\ analysis = [canReply |-> "absent", replyContent |-> <<"O", "K">>]
    /\ Len(forwards) = 1 /\ forwards[1].ok /\ forwards[1].site = "noReply"

(***************************************************************************)
(* C12: if reading the raw bytes fails, the run skips the oracle and       *)
(* attempts one message.forward to the resolved target; if that forward    *)
(* also fails, a backup object is written with a null body and an alert is *)
(* sent; the run then ends.                                                *)
(***************************************************************************)
C12_ReadFailed ==
    Len(rawReads) >= 1 /\ rawReads[1].by = "email" /\ ~rawReads[1].ok

C12_ReadFailureNullBackup ==
    C12_ReadFailed =>
        /\ oracleCalls = <<>>
        /\ sends = <<>>
        /\ Len(forwards) <= 1
        /\ (Finished /\ FailedForwards # {}) =>
              /\ Len(backups) = 1
              /\ backups[1].outcome \in {"stored", "putFailed"}
              /\ backups[1].body = Null
              /\ Len(alerts) = 1

(***************************************************************************)
(* C13: within one run message.raw is read at most once; the outer catch   *)
(* and the backup writer use the cached copy and never open the stream     *)
(* again.                                                                  *)
(***************************************************************************)
C13_RawReadAtMostOnce ==
    /\ Len(rawReads) <= 1
    /\ \A i \in 1..Len(rawReads) : rawReads[i].by = "email"

(***************************************************************************)
(* C14: send outcomes do not suppress each other: when the oracle says     *)
(* canReply=true, a delivery of the exchange to the resolved target, apart *)
(* from the customer reply, is attempted whether the customer-reply send   *)
(* succeeded or failed, and a failing customer-reply send is followed by a *)
(* bare-forward attempt.                                                   *)
(***************************************************************************)
C14_InternalDeliveries ==
    {i \in 1..Len(sends) : sends[i].to # message.from} \cup
    {i \in 1..Len(forwards) : forwards[i].to = targetEmail}

C14_OutcomesIndependent ==
    (Finished /\ sends # <<>>) =>
        /\ C14_InternalDeliveries # {}
        /\ FailedSends # {} => \E i \in 1..Len(forwards) : forwards[i].site = "replyFailed"

(***************************************************************************)
(* C15: a failure of a last-resort sink never propagates and never blocks  *)
(* the rest of the handler: when the backup write fails the alert is still *)
(* attempted, and when the alert fails, finds no webhook or is answered    *)
(* non-2xx, the run still ends normally and does nothing more.             *)
(***************************************************************************)
C15_BackupFailed ==
    \E i \in 1..Len(backups) : backups[i].outcome \in {"putFailed", "readFailed"}

C15_AlertFailed ==
    \E i \in 1..Len(alerts) : alerts[i].outcome \in {"non2xx", "fetchThrows", "noWebhook"}

C15_SinkFailuresContained ==
    /\ C15_BackupFailed => pc \in {"alert", "done"}
    /\ (C15_BackupFailed /\ Finished) => Len(alerts) = 1
    /\ C15_AlertFailed =>
          /\ Finished
          /\ Len(alerts) = 1
          /\ trace[Len(trace)] = "alert"

C15_Witness ==
    /\ Finished
    /\ \E i \in 1..Len(backups) : backups[i].outcome = "putFailed"
    /\ \E i \in 1..Len(alerts) : alerts[i].outcome = "fetchThrows"

(***************************************************************************)
(* C16: once a target is resolved the handler never lets an exception      *)
(* reach the platform: whatever fails among the raw read, the oracle call, *)
(* the customer-reply send, message.forward, the backup write and the      *)
(* alert, the run goes on through the handler's own steps and returns.     *)
(***************************************************************************)
C16_HandlerSteps ==
    {"read", "oracle", "awaitingOracle", "reply", "outer", "forward", "backup", "alert"}

C16_NeverThrowsPastHandler ==
    Resolved => pc \in C16_HandlerSteps \cup {"done"}

C16_Witness ==
    /\ Resolved /\ Finished
    /\ \E i \in 1..Len(oracleCalls) : oracleCalls[i].result \in OracleFailures
    /\ Len(rawReads) = 3 /\ \A i \in 2..3 : ~rawReads[i].ok
    /\ FailedForwards # {}
    /\ \E i \in 1..Len(backups) : backups[i].outcome = "readFailed"
    /\ \E i \in 1..Len(alerts) : alerts[i].outcome = "non2xx"

(***************************************************************************)
(* C17: every send handed to the mailer in a run carries In-Reply-To and   *)
(* References, both equal to the inbound Message-ID, when the inbound      *)
(* message has one, and carries neither header, not even a placeholder,    *)
(* when it has none.                                                       *)
(***************************************************************************)
C17_ThreadingHeadersFollowMessageId ==
    \A i \in RequestedSends :
        IF message.messageId # Undefined
        THEN sends[i].headerParams = { <<"h:In-Reply-To", message.messageId>>,
                                       <<"h:References", message.messageId>> }
        ELSE sends[i].headerParams = {}

C17_Witness ==
    /\ Finished
    /\ message.messageId # Undefined
    /\ RequestedSends # {}
    /\ \A i \in RequestedSends :
          <<"h:References", message.messageId>> \in sends[i].headerParams

(***************************************************************************)
(* C18: the subject normalisation of the customer reply is idempotent: a   *)
(* subject that already starts with "re:" in any letter case is left       *)
(* unchanged, any other subject gets exactly one "Re: " in front, and      *)
(* normalising an already normalised subject returns it unchanged.         *)
(***************************************************************************)
C18_StartsWithRe(subject) ==
    /\ Len(subject) >= 3
    /\ subject[1] \in {"r", "R"}
    /\ subject[2] \in {"e", "E"}
    /\ subject[3] = ":"

C18_Normalised(subject) ==
    IF C18_StartsWithRe(subject) THEN subject ELSE <<"R", "e", ":", " ">> \o subject

C18_SubjectIdempotent ==
    /\ (sends # <<>> /\ pc # "reply") =>
          sends[Len(sends)].subject = C18_Normalised(emailSubject)
    /\ \A i \in 2..Len(sends) : sends[i].subject = sends[i - 1].subject

C18_Witness ==
    /\ Len(sends) = 2
    /\ sends[1].subject = <<"R", "e", ":", " ", "x", "e">>
    /\ sends[2].subject = sends[1].subject

(***************************************************************************)
(* C19: backup object keys do not collide for distinct messages: two runs, *)
(* one after the other or at the same time, that each write a backup for a *)
(* different inbound message never write the same key, so no backup        *)
(* silently overwrites another.                                            *)
(***************************************************************************)
C19_KeysDoNotCollide ==
    \A i, j \in 1..Len(backups) :
        (i # j /\ BackupOf(backups[i]) # BackupOf(backups[j])) =>
            backups[i].key # backups[j].key

(***************************************************************************)
(* C20: the content excerpt placed in an alert is never longer than 1000   *)
(* characters, whatever the length of the raw message and whether or not a *)
(* blank line separating headers and body is found; a text longer than     *)
(* 1000 characters is cut to its first 997 characters followed by "...".   *)
(***************************************************************************)
C20_Excerpt(n) ==
    IF n > ExcerptLimit THEN Xs(ExcerptKept) \o <<".", ".", ".">> ELSE Xs(n)

C20_ExcerptBounded ==
    \A i \in 1..Len(alerts) :
        /\ Len(alerts[i].display) <= ExcerptLimit
        /\ \A shape \in ExcerptShapes, n \in ExcerptLengths :
              alerts[i].content = ExcerptInput(shape, n) =>
                  alerts[i].display = C20_Excerpt(n)

C20_Witness ==
    \E i \in 1..Len(alerts) :
        /\ alerts[i].content = ExcerptInput("paddedBody", ExcerptLimit + 1)
        /\ Len(alerts[i].display) = ExcerptLimit
        /\ alerts[i].display[ExcerptKept] = "x"
        /\ alerts[i].display[ExcerptLimit] = "."

(***************************************************************************)
(* C21: analyzeAndReply never surfaces an error to its caller: a missing   *)
(* AI binding, a failure of the model call, a failure while obtaining the  *)
(* calendar tools, or a model output without a boolean canReply each yield *)
(* a returned verdict with canReply=false and a diagnostic reason.         *)
(***************************************************************************)
C21_Returned == agent.step = "returned"

C21_CalendarToolsFailed == agent.mcp \in {"connectThrows", "discoverThrows"}

C21_IsVerdict ==
    /\ agent.result.canReply \in {"true", "false"}
    /\ agent.result.reason \notin {Undefined, ""}

C21_RefusedWith(reasons) ==
    agent.result.canReply = "false" /\ agent.result.reason \in reasons

\* C21 as stated: a failure while obtaining the calendar tools yields
\* canReply=false too
C21_AsStated ==
    C21_Returned =>
        /\ C21_IsVerdict
        /\ ~env.AI => C21_RefusedWith({"Error during analysis: " \o NoAIBinding})
        /\ agent.generated = "threw" =>
              C21_RefusedWith({"Error during analysis: " \o ModelCallFailed})
        /\ (agent.generated = "returned" /\ agent.output.canReply \notin {"true", "false"}) =>
              C21_RefusedWith({InvalidCanReply})
        /\ C21_CalendarToolsFailed => agent.result.canReply = "false"

\* C21 as amended: a failure while obtaining the calendar tools is logged and
\* the analysis goes on without them, with whatever verdict the model's
\* output gives; the other three failures yield canReply=false with their
\* diagnostic; in no case does an error reach the caller
C21_ErrorsBecomeVerdicts ==
    C21_Returned =>
        /\ C21_IsVerdict
        /\ ~env.AI => C21_RefusedWith({"Error during analysis: " \o NoAIBinding})
        /\ agent.generated = "threw" =>
              C21_RefusedWith({"Error during analysis: " \o ModelCallFailed})
        /\ (agent.generated = "returned" /\ agent.output.canReply \notin {"true", "false"}) =>
              C21_RefusedWith({InvalidCanReply})
        /\ C21_CalendarToolsFailed =>
              /\ ~agent.calendarTools
              /\ (/\ agent.generated = "returned"
                  /\ agent.output.canReply = "true"
                  /\ agent.output.reply = <<" ", "O", "K", " ">>) =>
                    /\ agent.result.canReply = "true"
                    /\ agent.result.replyContent = <<"O", "K">>

C21_Witness ==
    /\ C21_Returned
    /\ agent.mcp = "discoverThrows"
    /\ agent.generated = "returned"
    /\ agent.output.canReply = "notBoolean"
    /\ agent.result.reason = InvalidCanReply

(***************************************************************************)
(* C22: a single slow classification cannot stall the pipeline for ever:   *)
(* if the oracle call never returns, the run still eventually takes the    *)
(* oracle-failed path and attempts a message.forward to the resolved       *)
(* target.                                                                 *)
(***************************************************************************)
C22_OraclePending ==
    \E i \in 1..Len(oracleCalls) : oracleCalls[i].result = "pending"

C22_OracleDeadline ==
    C22_OraclePending ~> (\E i \in 1..Len(forwards) : forwards[i].site = "outer")

(***************************************************************************)
(* C23: for a message whose top-level headers declare a multipart          *)
(* boundary, extractPlainTextBody returns the text of a text/plain part if *)
(* any part of that type has non-empty text, whatever the order of the     *)
(* parts; otherwise the text of a text/html part with tags stripped and    *)
(* entities decoded; otherwise the text of any text/* part.                *)
(***************************************************************************)
\* the text a part carries, as its sender wrote it
C23_TextOf(kind) ==
    CASE kind = "plain" -> <<"H", "i">>
      [] kind = "plainSigned" -> <<"H", "i", "\n", "-", "-", " ", "\n", "J", "o">>
      [] kind = "html" -> <<"H", "o", " ", "&", " ", "y", "o", "u">>
      [] kind = "csv" -> <<"a", ",", "b">>
      [] OTHER -> <<>>

C23_Texts(ps, kinds) ==
    { C23_TextOf(ps[k]) : k \in {j \in 1..Len(ps) : ps[j] \in kinds} } \ { <<>> }

C23_PrefersPlainThenHtml ==
    \A ps \in PartLists :
        (message.raw = Multipart(ps) /\ emailBody # Null) =>
            LET plain == C23_Texts(ps, {"plain", "plainSigned", "plainEmpty"})
                html == C23_Texts(ps, {"html"})
                other == C23_Texts(ps, {"csv"})
            IN  IF plain # {} THEN emailBody \in plain
                ELSE IF html # {} THEN emailBody \in html
                ELSE other # {} => emailBody \in other

(***************************************************************************)
(* C24: extractPlainTextBody is total and always returns a string: when no *)
(* multipart structure is declared, or no part yields non-empty text, it   *)
(* returns everything after the first blank line following the headers,    *)
(* trimmed; when the input has no blank line it returns the whole input    *)
(* trimmed.                                                                *)
(***************************************************************************)
C24_Extracted == Len(rawReads) >= 1 /\ rawReads[1].ok

C24_NothingYields(ps) == \A k \in 1..Len(ps) : ps[k] \in {"plainEmpty", "png"}

C24_TotalWithFallback ==
    C24_Extracted =>
        /\ emailBody # Null
        /\ \A h \in SimpleHeaders, sep \in Separators, t \in SimpleTexts, pad \in Paddings :
              message.raw = Simple(h, sep, t, pad) => emailBody = t
        /\ \A ps \in PartLists :
              (message.raw = Multipart(ps) /\ C24_NothingYields(ps)) =>
                  emailBody = MultipartBody(ps)
        /\ \A t \in UnseparatedTexts, pad \in Paddings :
              message.raw = Unseparated(t, pad) => emailBody = t

C24_Witness ==
    /\ C24_Extracted
    /\ message.raw = Multipart(<<"png", "plainEmpty">>)
    /\ emailBody = MultipartBody(<<"png", "plainEmpty">>)
    /\ oracleCalls # <<>>

(***************************************************************************)
(* C25: sendWithMailgun throws on every non-2xx provider response with an  *)
(* error carrying the response body, and throws before issuing any request *)
(* when MAILGUN_DOMAIN or MAILGUN_API_KEY is missing; in the Replying      *)
(* branch either failure leads to the fallback forward.                    *)
(***************************************************************************)
C25_FallbackForwards ==
    {j \in 1..Len(forwards) :
        forwards[j].site = "replyFailed" /\ forwards[j].to = targetEmail}

C25_MailerFailuresFallBack ==
    \A i \in 1..Len(sends) :
        LET s == sends[i]
            threw == ~MailgunReturned(s.outcome)
        IN  /\ (s.response # NoResponse /\ ~ResponseOk(s.response.status)) =>
                  /\ threw
                  /\ s.error.message = "Mailgun failed"
                  /\ s.error.status = s.response.status
                  /\ s.error.text = s.response.text
            /\ (~env.MAILGUN_DOMAIN \/ ~env.MAILGUN_API_KEY) =>
                  /\ threw
                  /\ ~MailgunRequested(s.outcome)
                  /\ s.response = NoResponse
            /\ (threw /\ (s.outcome \in {"non2xx", "notConfigured"})) =>
                  \/ pc = "forward" /\ site = "replyFailed"
                  \/ C25_FallbackForwards # {}

C25_Witness ==
    /\ Finished
    /\ Len(sends) = 1
    /\ sends[1].outcome = "non2xx"
    /\ sends[1].response = [status |-> 302, text |-> "Forbidden"]
    /\ sends[1].error.text = "Forbidden"
    /\ C25_FallbackForwards # {}

C25_UnconfiguredSeen ==
    /\ Finished
    /\ env.MAILGUN_DOMAIN /\ ~env.MAILGUN_API_KEY
    /\ Len(sends) = 1 /\ sends[1].outcome = "notConfigured"
    /\ \E j \in C25_FallbackForwards : forwards[j].ok

(***************************************************************************)
(* C26: every run of email() terminates either Delivered (a customer reply *)
(* or a forward succeeded) or Failed-Safed (a backup or an alert was       *)
(* attempted), provided every external call returns or throws; the handler *)
(* only moves forward through its statements, it never loops or retries.   *)
(***************************************************************************)
C26_Delivered == SuccessfulSends # {} \/ SuccessfulForwards # {}
C26_FailedSafed == backups # <<>> \/ alerts # <<>>

\* the order of the handler's statements on every path
C26_Position(step) ==
    CASE step = "start" -> 0
      [] step = "read" -> 1
      [] step = "oracle" -> 2
      [] step \in {"awaitingOracle", "reply", "outer"} -> 3
      [] step = "forward" -> 4
      [] step = "backup" -> 5
      [] step = "alert" -> 6
      [] OTHER -> 7

\* an external call that neither returned nor threw
C26_CallPending == pc = "awaitingOracle"

C26_Terminates ==
    /\ [][C26_Position(pc') > C26_Position(pc)]_vars
    /\ [](Finished => (C26_Delivered \/ C26_FailedSafed))
    /\ <>(Finished \/ C26_CallPending)

C26_Witness ==
    /\ Finished
    /\ FailedSends # {} /\ FailedForwards # {}
    /\ ~C26_Delivered
    /\ Len(backups) = 1 /\ Len(alerts) = 1

(***************************************************************************)
(* C27: the steps of a run are sequential and ordered: the fallback        *)
(* forward starts only after the customer-reply send has completed with    *)
(* failure, the backup write starts only after that forward has failed,    *)
(* and the alert of a resolved run starts only after the backup write has  *)
(* completed, whatever its outcome.                                        *)
(***************************************************************************)
C27_ForwardStarted == pc = "forward" \/ forwards # <<>>
C27_BackupStarted == pc = "backup" \/ backups # <<>>
C27_AlertStarted == pc = "alert" \/ alerts # <<>>

C27_StepsOrdered ==
    /\ (sends # <<>> /\ C27_ForwardStarted) =>
          /\ SuccessfulSends = {}
          /\ site = "replyFailed"
          /\ AllBefore("reply", "forward")
    /\ C27_BackupStarted =>
          /\ forwards # <<>> /\ SuccessfulForwards = {}
          /\ AllBefore("forward", "backup")
    /\ (Resolved /\ C27_AlertStarted) =>
          /\ Len(backups) = 1
          /\ AllBefore("backup", "alert")

C27_Witness ==
    /\ Finished
    /\ Len(trace) >= 4
    /\ SubSeq(trace, Len(trace) - 3, Len(trace))
          = <<"reply", "forward", "backup", "alert">>
    /\ backups[1].outcome = "putFailed"

(***************************************************************************)
(* C28: in every run each effect happens at most once: at most one         *)
(* customer-reply send, one message.forward attempt, one backup write and  *)
(* one alert; the outer catch and its forward are never reached after an   *)
(* earlier forward or customer-reply attempt of the same run.              *)
(***************************************************************************)
C28_Count(tag) == Cardinality(Positions(tag))

C28_OuterForwards == {j \in 1..Len(forwards) : forwards[j].site = "outer"}

C28_EachEffectAtMostOnce ==
    /\ Len(sends) <= 1 /\ C28_Count("reply") = Len(sends)
    /\ Len(forwards) <= 1 /\ C28_Count("forward") = Len(forwards)
    /\ Len(backups) <= 1 /\ C28_Count("backup") = Len(backups)
    /\ Len(alerts) <= 1 /\ C28_Count("alert") = Len(alerts)
    /\ pc = "outer" => (sends = <<>> /\ forwards = <<>>)
    /\ (pc = "forward" /\ site = "outer") => (sends = <<>> /\ forwards = <<>>)
    /\ C28_OuterForwards # {} => (sends = <<>> /\ Len(forwards) = 1)

C28_Witness ==
    /\ Finished
    /\ C28_OuterForwards # {} /\ FailedForwards # {}
    /\ Len(oracleCalls) = 1
    /\ sends = <<>>
    /\ Len(backups) = 1 /\ Len(alerts) = 1

(***************************************************************************)
(* C29: a backup write is attempted only in a run where a message.forward  *)
(* to the resolved target has already failed; an alert is attempted only   *)
(* after a failed forward or on a routing miss; no run with a successful   *)
(* forward or a successful customer reply writes a backup or sends an      *)
(* alert.                                                                  *)
(***************************************************************************)
C29_ForwardFailed ==
    /\ Resolved
    /\ \E j \in FailedForwards : forwards[j].to = targetEmail

C30_CcOfReply == \E i \in SuccessfulSends : sends[i].cc = targetEmail
C30_ForwardedTo == \E j \in SuccessfulForwards : forwards[j].to = targetEmail

C30_TargetSeesTheMessage ==
    (Finished /\ Resolved /\ NoSafetyNet) => (C30_CcOfReply \/ C30_ForwardedTo)

C30_Witness ==
    /\ Finished /\ Resolved /\ NoSafetyNet
    /\ C30_CcOfReply
    /\ forwards = <<>>

(***************************************************************************)
(* C31: every verdict returned by analyzeAndReply is well-formed:          *)
(* canReply=true only together with a non-empty string replyContent, and   *)
(* canReply=false always together with replyContent=null and a non-empty   *)
(* reason, also when the model's reply field is empty, white space only or *)
(* not a string.                                                           *)
(***************************************************************************)
C31_NonEmptyString(text) == text # Null /\ text # NotAString /\ Len(text) > 0

C31_WellFormedVerdict ==
    agent.step = "returned" =>
        /\ agent.result.canReply \in {"true", "false"}
        /\ agent.result.canReply = "true" =>
              C31_NonEmptyString(agent.result.replyContent)
        /\ agent.result.canReply = "false" =>
              /\ agent.result.replyContent = Null
              /\ agent.result.reason \notin {Undefined, ""}

\* the part of C31 the code keeps: whatever the output, a refusal carries
\* null and a reason, and a reply field that is missing, empty or not a
\* string is refused
C31_RefusalsWellFormed ==
    agent.step = "returned" =>
        /\ agent.result.canReply \in {"true", "false"}
        /\ agent.result.canReply = "false" =>
              /\ agent.result.replyContent = Null
              /\ agent.result.reason \notin {Undefined, ""}
        /\ (agent.generated = "returned"
              /\ agent.output.reply \in {Null, <<>>, NotAString}) =>
              agent.result.canReply = "false"

C31_BlankReplySeen ==
    /\ agent.step = "returned"
    /\ agent.output.canReply = "true"
    /\ agent.output.reply = <<" ", "\n">>
    /\ agent.result.canReply = "true"
    /\ agent.result.replyContent = <<>>

(***************************************************************************)
(* C32: a customer-reply send that the mail provider accepted with a 2xx   *)
(* response is always treated as success: it never triggers the fallback   *)
(* message.forward, so the resolved target never receives both the CC'd    *)
(* reply and a forwarded copy in one run.                                  *)
(***************************************************************************)
C32_AcceptedSends ==
    {i \in 1..Len(sends) :
        /\ sends[i].response # NoResponse
        /\ ResponseOk(sends[i].response.status)}

C32_AcceptedIsSuccess ==
    C32_AcceptedSends # {} =>
        /\ pc # "forward"
        /\ forwards = <<>>
        /\ ~(\E i \in C32_AcceptedSends, j \in SuccessfulForwards :
                sends[i].cc = forwards[j].to)

\* the run the claim excludes: the provider took the reply with the target
\* in CC, and the target got the forwarded copy as well
C32_DeliveredTwice ==
    /\ Finished
    /\ \E i \in C32_AcceptedSends, j \in SuccessfulForwards :
          /\ sends[i].cc = targetEmail
          /\ forwards[j].to = targetEmail
          /\ forwards[j].site = "replyFailed"

\* what the code keeps: a send whose call returned is never followed by a
\* forward
C32_ReturnedIsSuccess ==
    SuccessfulSends # {} => (pc # "forward" /\ forwards = <<>>)

(***************************************************************************)
(* C33: an alert whose Status field says the email was saved to the R2     *)
(* backup is sent only in runs where the backup write succeeded; an alert  *)
(* sent after a failed or skipped backup write does not say a backup       *)
(* exists.                                                                 *)
(***************************************************************************)
C33_SaysSaved(alert) == alert.status = "Email saved to R2 backup"

C33_BackupStored == \E k \in 1..Len(backups) : backups[k].outcome = "stored"

C33_StatusTellsTheTruth ==
    \A i \in 1..Len(alerts) : C33_SaysSaved(alerts[i]) => C33_BackupStored

\* the run the claim excludes: the put failed and the alert says saved
C33_FalseConfirmation ==
    /\ Finished
    /\ Len(backups) = 1 /\ backups[1].outcome = "putFailed"
    /\ Len(alerts) = 1 /\ alerts[1].outcome = "posted"
    /\ C33_SaysSaved(alerts[1])

\* what the code keeps: the alert of a run that skipped the backup (a
\* routing miss) names the routing error instead
C33_SkippedBackupNotClaimed ==
    \A i \in 1..Len(alerts) : backups = <<>> => ~C33_SaysSaved(alerts[i])

(***************************************************************************)
(* C34: when the agent namespace binding is not configured, the run makes  *)
(* no oracle call and no customer-reply send; it attempts exactly one      *)
(* message.forward to the resolved target and, when that fails, writes a   *)
(* backup holding the content already read and sends an alert.             *)
(***************************************************************************)
C34_NoAgent == Resolved /\ ~env.RETAIL_EMAIL_AGENT

C34_ContentRead == Len(rawReads) >= 1 /\ rawReads[1].ok

C34_ForwardOnlyWithoutAgent ==
    C34_NoAgent =>
        /\ oracleCalls = <<>>
        /\ sends = <<>>
        /\ Len(forwards) <= 1
        /\ \A j \in 1..Len(forwards) : forwards[j].to = targetEmail
        /\ Finished =>
              /\ Len(forwards) = 1
              /\ SuccessfulForwards # {} => NoSafetyNet
              /\ FailedForwards # {} => OneBackupThenOneAlert
              /\ (FailedForwards # {} /\ C34_ContentRead) =>
                    /\ backups[1].body = message.raw
                    /\ Len(rawReads) = 1

C34_Witness ==
    /\ C34_NoAgent /\ Finished
    /\ C34_ContentRead
    /\ Len(forwards) = 1 /\ forwards[1].site = "noAgent" /\ ~forwards[1].ok
    /\ Len(backups) = 1 /\ backups[1].body = message.raw
    /\ Len(alerts) = 1

(***************************************************************************)
(* C35: a failure anywhere in obtaining the calendar tools (MCP connect,   *)
(* cleanup, discovery, getAITools) never turns into an oracle failure:     *)
(* analyzeAndReply still makes the model call, with the product tools      *)
(* alone, and the calendar tool set is non-empty only if a ready "Google   *)
(* Calendar" server with an /sse URL was found and discovery succeeded.    *)
(***************************************************************************)
C35_ToolsFailed ==
    agent.mcp \in {"connectThrows", "discoverThrows", "discoverFailed",
                   "noTools", "notReady"}

C35_ModelCalled == agent.generated \in {"threw", "returned"}

C35_ToolFailuresAreNotOracleFailures ==
    /\ (agent.step = "returned" /\ env.AI) =>
          /\ C35_ModelCalled
          /\ agent.generated = "returned" => agent.result = Verdict(agent.output)
    /\ C35_ToolsFailed =>
          /\ ~agent.calendarTools
          /\ agent.step \in {"generate", "returned"}
    /\ agent.calendarTools =>
          /\ agent.mcp = "tools"
          /\ ReadySse(agent.servers) # {}

C35_Witness ==
    /\ agent.step = "returned"
    /\ agent.mcp = "connectThrows"
    /\ agent.removalErrors
    /\ ~agent.calendarTools
    /\ agent.generated = "returned"
    /\ agent.result.canReply = "true"

(***************************************************************************)
(* C36: MCP connection management is idempotent over any sequence of       *)
(* connectToMcpServer calls: while a ready "Google Calendar" server with   *)
(* an /sse URL is registered no further server is added, and after         *)
(* cleanupMcpServers completes without removal errors every remaining      *)
(* server is in state "ready" with a URL ending in "/sse".                 *)
(***************************************************************************)
C36_Ids(servers) == {x.id : x \in servers}

C36_CleanedUp == agent.step = "find" /\ ~agent.removalErrors

C36_ConnectionsIdempotent ==
    /\ [][ReadySse(agent.servers) # {} =>
            C36_Ids(agent.servers') \subseteq C36_Ids(agent.servers)]_vars
    /\ [](C36_CleanedUp =>
            \A x \in agent.servers : x.state = "ready" /\ x.url = "/sse")

C36_Witness ==
    /\ C36_CleanedUp
    /\ agent.calls = 2
    /\ Cardinality(agent.servers) = 2
    /\ Cardinality(ReadySse(agent.servers)) = 1

(***************************************************************************)
(* C37: the oracle instance a run addresses is a function of the sender    *)
(* address only ("email-" followed by the sender): runs for the same       *)
(* sender always address the same instance and runs for different senders  *)
(* never share one.                                                        *)
(***************************************************************************)
C37_InstancePerSender ==
    /\ \A i \in 1..Len(oracleCalls) :
          /\ SubSeq(oracleCalls[i].id, 1, Len(EmailPrefix)) = EmailPrefix
          /\ SubSeq(oracleCalls[i].id, Len(EmailPrefix) + 1, Len(oracleCalls[i].id))
                = oracleCalls[i].customerEmail
    /\ \A i, j \in 1..Len(oracleCalls) :
          (oracleCalls[i].id = oracleCalls[j].id)
            <=> (oracleCalls[i].customerEmail = oracleCalls[j].customerEmail)

C37_Witness ==
    /\ Len(oracleCalls) = 2
    /\ oracleCalls[1].customerEmail = <<"c", "@", "x">>
    /\ oracleCalls[2].customerEmail = <<"d", "@", "x">>
    /\ oracleCalls[1].body = oracleCalls[2].body
    /\ oracleCalls[1].id # oracleCalls[2].id

C37_SameSenderSeen ==
    /\ Len(oracleCalls) = 2
    /\ oracleCalls[1].customerEmail = oracleCalls[2].customerEmail
    /\ oracleCalls[1].body # oracleCalls[2].body
    /\ oracleCalls[1].id = oracleCalls[2].id

====
